---- MODULE Spec2Model ----
(***************************************************************************)
(* Leaderboard rank service: UserService (rank computation, caching,       *)
(* per-user lock, asynchronous invalidation) over UserRepository (the      *)
(* Score Store) and CacheManager (the Answer Cache).                       *)
(*                                                                         *)
(* Every request is a caller; a caller advances one shared-memory access   *)
(* (store query, cache command, mutex operation) at a time.  Goroutines    *)
(* started with "go func" are pending tasks that run at any later moment.  *)
(***************************************************************************)
EXTENDS Integers, Sequences, FiniteSets, TLC

(***************************************************************************)
(* Program constants.                                                      *)
(***************************************************************************)
MinRating == 100
MaxRating == 5000
MinUsername == 3
MaxUsername == 50

\* RateLimitMiddleware: NewRateLimiter(200, 100).
maxTokens == 200
refillRate == 100
\* The model's clock ticks every 5 ms and its token balances are counted in
\* half tokens: one tick refills half a token.
TicksPerSecond == 200
TokenUnit == 2

\* SeedData: the number of users it creates.
numUsers == 500

(***************************************************************************)
(* Bounds of the model.                                                    *)
(***************************************************************************)
\* Requests in one behaviour of Spec, served by up to two callers at a time.
MaxCalls == 2
\* Requests in one behaviour of SpecSeq, served one after the other.
MaxSeqCalls == 3
\* Requests in one behaviour of SpecLock, served by up to two callers at a time.
MaxLockCalls == 2
\* Requests in one behaviour of SpecTie.
MaxTieCalls == 2
\* The largest page number, page size and context size asked for in SpecPage.
MaxPage == 3
MaxPageSize == 3
MaxContext == 2
\* Requests in one behaviour of SpecCreate, served by up to two callers at a time.
MaxCreateCalls == 2

\* Requests in one behaviour of SpecRange, served by up to two callers at a time.
MaxRangeCalls == 2
\* Requests in one behaviour of SpecRecord, served by up to two callers at a time.
MaxRecordCalls == 2
\* Requests of the first client, requests of the second client and ticks of
\* the clock in one behaviour of SpecRate.
MaxRequests == 202
MaxOtherRequests == 1
MaxNow == 5
\* Requests in one behaviour of SpecHit, served by up to two callers at a time.
MaxHitCalls == 2
\* Requests in one behaviour of SpecUpdate, served by up to two callers at a time.
MaxUpdateCalls == 2
\* Calls of debouncedSearch in one behaviour of SpecSearch.
MaxSearches == 3
\* Requests and store or cache failures in one behaviour of SpecFault.
MaxFaultCalls == 1
MaxFaults == 1

Callers == {"c1", "c2"}
\* Every id a request may name.
UserIds == {"u1", "u2", "u3", "u4"}

(***************************************************************************)
(* Usernames are sequences of characters.                                  *)
(***************************************************************************)
Letters == {"a", "b", "c", "A", "B", "C"}
Digits == {"1"}
\* unicode.ToLower / SQL LOWER on the characters of the model.
LowerChar(ch) ==
    CASE ch = "A" -> "a"
      [] ch = "B" -> "b"
      [] ch = "C" -> "c"
      [] OTHER -> ch

Lower(name) == [i \in 1..Len(name) |-> LowerChar(name[i])]

\* Byte order of the characters of the model (ORDER BY username ASC).
CharOrd(ch) ==
    CASE ch = " " -> 0
      [] ch = "!" -> 1
      [] ch = "-" -> 2
      [] ch = "1" -> 3
      [] ch = "A" -> 4
      [] ch = "B" -> 5
      [] ch = "C" -> 6
      [] ch = "_" -> 7
      [] ch = "a" -> 8
      [] ch = "b" -> 9
      [] ch = "c" -> 10
      [] OTHER -> 11

RECURSIVE NameLess(_, _)
NameLess(a, b) ==
    IF b = <<>> THEN FALSE
    ELSE IF a = <<>> THEN TRUE
    ELSE IF CharOrd(Head(a)) # CharOrd(Head(b)) THEN CharOrd(Head(a)) < CharOrd(Head(b))
    ELSE NameLess(Tail(a), Tail(b))

RECURSIVE TrimLeft(_)
TrimLeft(s) == IF s # <<>> /\ Head(s) = " " THEN TrimLeft(Tail(s)) ELSE s

RECURSIVE TrimRight(_)
TrimRight(s) ==
    IF s # <<>> /\ s[Len(s)] = " " THEN TrimRight(SubSeq(s, 1, Len(s) - 1)) ELSE s

TrimSpace(s) == TrimRight(TrimLeft(s))

isValidUsernameChar(ch) == ch \in Letters \/ ch \in Digits \/ ch = "_" \/ ch = "-"

\* TRUE when ValidateUsername returns nil.
ValidateUsername(username) ==
    LET t == TrimSpace(username) IN
        /\ Len(t) >= MinUsername
        /\ Len(t) <= MaxUsername
        /\ \A i \in 1..Len(t) : isValidUsernameChar(t[i])

\* TRUE when ValidateRating returns nil.
\* ValidateRating with both limits excluded.
ValidateRating_Open(rating) == ~(rating <= MinRating \/ rating >= MaxRating)

\* A check of the lower limit alone.
ValidateRating_NoUpper(rating) == ~(rating < MinRating)

ValidateRating(rating) == ~(rating < MinRating \/ rating > MaxRating)

(***************************************************************************)
(* The Score Store: the users table, rows in insertion order.              *)
(***************************************************************************)
NoUser == [id |-> "none", username |-> <<>>, rating |-> 0]

\* The usernames of the model.
NameA == <<"a", "a", "a">>
NameB == <<"b", "b", "b">>
NameC == <<"c", "c", "c">>
NameD == <<"a", "b", "c">>

VARIABLES
    users,        \* the users table: a sequence of rows [id, username, rating]
    userCache,    \* Answer Cache, keys user:{id}: a row or NoUser
    rankCache,    \* Answer Cache, keys rank:{id}: a rank, 0 when the key is absent
    rankMu,       \* UserService.rankMu (keys: the ids that have a mutex; made: the
                  \* mutexes ever stored for an id) and
                  \* UserService.mu (mu: the caller that holds it, or "none")
    held,         \* the ids whose mutex is locked
    call,         \* per caller: the request it is serving and its position
    setRankTasks, \* pending "go SetRank" goroutines
    setUserTasks, \* pending "go SetUser" goroutines
    invTasks,     \* pending invalidation goroutines
    ret,          \* the call that has just returned: set by the step that returns
    lastWrite,    \* the latest mutation of the users table
    batch,        \* the GetRank calls issued together against a cold cache
    ncalls,       \* requests that have arrived
    nfaults,      \* failures injected so far
    cfg,          \* the limits of the behaviour: requests, failures, callers at a time
    limiter,      \* the RateLimiter of RateLimitMiddleware, the clock and its clients
    paging,       \* one leaderboard request's page and page_size in machine integers
    useSearch     \* the state of the frontend's useSearch hook, its timer and requests

vars == <<users, userCache, rankCache, rankMu, held, call, setRankTasks,
          setUserTasks, invTasks, ret, lastWrite, batch, ncalls, nfaults, cfg,
          limiter, paging, useSearch>>

(***************************************************************************)
(* UserRepository: the queries, as functions of the table t.               *)
(***************************************************************************)
Min(S) == CHOOSE x \in S : \A y \in S : x <= y

\* GetUserByID: WHERE id = ? ... First; NoUser stands for (nil, nil).
GetUserByID(t, userID) ==
    LET hits == {i \in 1..Len(t) : t[i].id = userID} IN
        IF hits = {} THEN NoUser ELSE t[Min(hits)]

\* GetUserByUsername: WHERE LOWER(username) = LOWER(?) ... First.
GetUserByUsername(t, username) ==
    LET hits == {i \in 1..Len(t) : Lower(t[i].username) = Lower(username)} IN
        IF hits = {} THEN NoUser ELSE t[Min(hits)]

\* UpdateUserRating: UPDATE users SET rating = ? WHERE id = ?.
UpdateUserRating(t, userID, newRating) ==
    [i \in 1..Len(t) |->
        IF t[i].id = userID THEN [t[i] EXCEPT !.rating = newRating] ELSE t[i]]

\* CalculateRank, first query: Select("rating").Scan(&targetRating).  Scan
\* reports no error when no row matches and leaves targetRating at 0.
ScanRating(t, userID) ==
    LET hits == {i \in 1..Len(t) : t[i].id = userID} IN
        IF hits = {} THEN 0 ELSE t[Min(hits)].rating

\* CalculateRank, second query: COUNT(*) WHERE rating > targetRating.
RECURSIVE CountGreater(_, _)
CountGreater(t, targetRating) ==
    IF t = <<>> THEN 0
    ELSE (IF Head(t).rating > targetRating THEN 1 ELSE 0)
         + CountGreater(Tail(t), targetRating)

\* A dense ranking: one more than the number of distinct higher ratings.
RankFromCount_Dense(t, targetRating) ==
    Cardinality({t[i].rating : i \in {j \in 1..Len(t) : t[j].rating > targetRating}}) + 1

\* CalculateRank's return value for the rating its first query read.
RankFromCount(t, targetRating) == CountGreater(t, targetRating) + 1

\* The primary key (id) and the unique index idx_users_username admit the row.
CanInsert(t, row) ==
    \A i \in 1..Len(t) : t[i].id # row.id /\ t[i].username # row.username

(***************************************************************************)
(* Callers.                                                                *)
(***************************************************************************)
NoPage == [entries |-> <<>>, total |-> 0, page |-> 0, pageSize |-> 0,
           hasMore |-> FALSE]

\* A caller's record: the request (op, id, arg, name, ctx), the locals of the
\* handler (user, target, rank, total), what it returns (err, rank, rating,
\* page) and what happened during the call (the other fields).
Idle ==
    [pc |-> "idle", op |-> "none", id |-> "none", arg |-> 0, name |-> <<>>,
     ctx |-> 0, user |-> NoUser, target |-> 0, total |-> 0,
     computed |-> FALSE, simul |-> FALSE, settled |-> FALSE, after |-> 0,
     clean |-> FALSE, latest |-> FALSE, existed |-> FALSE, alone |-> FALSE,
     fault |-> "none", cfault |-> FALSE, fromdb |-> FALSE,
     wrote |-> FALSE, spawned |-> FALSE, cancelled |-> FALSE, repeat |-> FALSE,
     waited |-> FALSE,
     err |-> "none", rank |-> 0, rating |-> 0, page |-> NoPage]

InFlight(c) == call[c].pc # "idle"

\* The table as the service finds it at startup: rows of an earlier seeding.
SeedTable ==
    << [id |-> "u1", username |-> NameA, rating |-> 5000],
       [id |-> "u2", username |-> NameB, rating |-> 100] >>

\* SeedData: the rating of its i-th user, int32(100 + (i*37)%4901); the sum
\* is below 2^31 for every i, so the conversion to int32 keeps it.
SeedRating(i) == 100 + ((i * 37) % 4901)

\* A table as SeedData leaves it, cut down to two of its users: the i-th and
\* the j-th.
SeededTable(i, j) ==
    << [id |-> "u1", username |-> NameA, rating |-> SeedRating(i)],
       [id |-> "u2", username |-> NameB, rating |-> SeedRating(j)] >>

NoWrite == [kind |-> "none", id |-> "none", returned |-> FALSE]

NoBatch == [n |-> 0, id |-> "none", calcs |-> 0, back |-> 0, rank |-> 0,
            same |-> TRUE]

(***************************************************************************)
(* RateLimiter (middleware).  Time is counted in ticks, tokens in units of  *)
(* 1/TokenUnit: the float64 balance takes fractional values between        *)
(* requests.                                                               *)
(***************************************************************************)
Clients == {"ip1", "ip2"}
NoTime == -1

\* NewRateLimiter(200, 100): empty maps (a missing key reads as 0); the clock
\* starts at 0; no client has asked for anything.
NewRateLimiter ==
    [tokens |-> [k \in Clients |-> 0],
     lastRefill |-> [k \in Clients |-> NoTime],
     now |-> 0,
     asked |-> [k \in Clients |-> 0],
     allowed |-> [k \in Clients |-> 0],
     first |-> [k \in Clients |-> NoTime],
     last |-> [client |-> "none", ok |-> FALSE]]

\* min(a, b) of the middleware package.
min(a, b) == IF a < b THEN a ELSE b

\* tokensToAdd := elapsed * rl.refillRate, elapsed in ticks.
TokensToAdd(elapsed) == (elapsed * refillRate * TokenUnit) \div TicksPerSecond

\* A refill with no upper limit.
Refill_Uncapped(tokens, elapsed) == tokens + TokensToAdd(elapsed)

\* min(rl.maxTokens, rl.tokens[clientID]+tokensToAdd)
Refill(tokens, elapsed) == min(maxTokens * TokenUnit, tokens + TokensToAdd(elapsed))

\* The requests a client makes in one behaviour.
RequestLimit(clientID) == IF clientID = "ip1" THEN MaxRequests ELSE MaxOtherRequests

\* One bucket for all clients.
Bucket_Shared(clientID) == "ip1"

\* rl.tokens[clientID], rl.lastRefill[clientID]: the maps are keyed by the
\* client's id.
Bucket(clientID) == clientID

\* RateLimiter.Allow(clientID), under rl.mu: the refill, then the token check.
Allow(clientID) ==
    /\ limiter.asked[clientID] < RequestLimit(clientID)
    /\ LET key == Bucket(clientID)
           exists == limiter.lastRefill[key] # NoTime
           refilled == IF ~exists THEN maxTokens * TokenUnit
                       ELSE Refill(limiter.tokens[key],
                                   limiter.now - limiter.lastRefill[key])
           ok == refilled >= TokenUnit
       IN limiter' = [limiter EXCEPT
                        !.tokens[key] = IF ok THEN refilled - TokenUnit ELSE refilled,
                        !.lastRefill[key] = limiter.now,
                        !.asked[clientID] = @ + 1,
                        !.allowed[clientID] = IF ok THEN @ + 1 ELSE @,
                        !.first[clientID] = IF exists THEN @ ELSE limiter.now,
                        !.last = [client |-> clientID, ok |-> ok]]
    /\ UNCHANGED <<users, userCache, rankCache, rankMu, held, call, setRankTasks,
                   setUserTasks, invTasks, ret, lastWrite, batch, ncalls, nfaults,
                   cfg, paging, useSearch>>

\* time.Now() moves on by one tick.
Tick ==
    /\ limiter.now < MaxNow
    /\ limiter' = [limiter EXCEPT !.now = @ + 1,
                                  !.last = [client |-> "none", ok |-> FALSE]]
    /\ UNCHANGED <<users, userCache, rankCache, rankMu, held, call, setRankTasks,
                   setUserTasks, invTasks, ret, lastWrite, batch, ncalls, nfaults,
                   cfg, paging, useSearch>>

(***************************************************************************)
(* The paging arithmetic of a leaderboard request on Go's int.  The        *)
(* backend is built for 64-bit targets, where int is 64 bits wide and      *)
(* arithmetic wraps; a value is kept as four 16-bit limbs, least           *)
(* significant first, in two's complement.                                 *)
(***************************************************************************)
Limb == 65536

\* The int with the value n, for n small enough to be written here.
IntOf(n) ==
    IF n >= 0 THEN <<n % Limb, n \div Limb, 0, 0>>
    ELSE LET m == (-n) - 1
         IN <<(Limb - 1) - (m % Limb), (Limb - 1) - (m \div Limb), Limb - 1, Limb - 1>>

\* math.MaxInt64, the largest value strconv.Atoi returns without an error.
MaxInt64 == <<Limb - 1, Limb - 1, Limb - 1, (Limb \div 2) - 1>>

\* w < 0 and w < 1 on int.
IsNegative(w) == w[4] >= Limb \div 2
LessThanOne(w) == IsNegative(w) \/ w = IntOf(0)

\* w - 1 on int, wrapping.
Decrement(w) ==
    IF w[1] > 0 THEN <<w[1] - 1, w[2], w[3], w[4]>>
    ELSE IF w[2] > 0 THEN <<Limb - 1, w[2] - 1, w[3], w[4]>>
    ELSE IF w[3] > 0 THEN <<Limb - 1, Limb - 1, w[3] - 1, w[4]>>
    ELSE <<Limb - 1, Limb - 1, Limb - 1, (w[4] + Limb - 1) % Limb>>

\* w * k on int for 0 <= k <= 1000: the low 64 bits of the product.
Times(w, k) ==
    LET p1 == w[1] * k
        p2 == (w[2] * k) + (p1 \div Limb)
        p3 == (w[3] * k) + (p2 \div Limb)
        p4 == (w[4] * k) + (p3 \div Limb)
    IN <<p1 % Limb, p2 % Limb, p3 % Limb, p4 % Limb>>

\* What strconv.Atoi returns for the page parameter of a request: an error
\* for text that is not a number, else the value; values around 1 and values
\* near the top of int.
PageQueries ==
    {[val |-> IntOf(0), err |-> TRUE]}
    \cup {[val |-> w, err |-> FALSE] :
            w \in {IntOf(-1), IntOf(0), IntOf(1), IntOf(2), IntOf(3),
                   <<1, 0, 0, 32>>, <<1, 0, 0, 16384>>, MaxInt64}}

\* What strconv.Atoi returns for the page_size parameter; the values here
\* are small enough to be written as numbers.
PageSizeQueries ==
    {[val |-> 0, err |-> TRUE]}
    \cup {[val |-> n, err |-> FALSE] : n \in {-1, 0, 1, 2, 100, 1000, 1001}}

NoPaging == [pc |-> "idle", pageQ |-> [val |-> IntOf(0), err |-> TRUE],
             sizeQ |-> [val |-> 0, err |-> TRUE],
             page |-> IntOf(1), pageSize |-> 100, offset |-> IntOf(0)]

\* UserController.GetLeaderboard up to its call of the service: both
\* parameters parsed, a parse error or a value out of range replaced.
ParsePaging(pageQ, sizeQ) ==
    /\ paging.pc = "idle"
    /\ paging' = [pc |-> "parsed", pageQ |-> pageQ, sizeQ |-> sizeQ,
                  page |-> IF pageQ.err \/ LessThanOne(pageQ.val)
                           THEN IntOf(1) ELSE pageQ.val,
                  pageSize |-> IF sizeQ.err \/ sizeQ.val < 1 \/ sizeQ.val > 1000
                               THEN 100 ELSE sizeQ.val,
                  offset |-> IntOf(0)]
    /\ UNCHANGED <<users, userCache, rankCache, rankMu, held, call, setRankTasks,
                   setUserTasks, invTasks, ret, lastWrite, batch, ncalls, nfaults,
                   cfg, limiter, useSearch>>

\* UserService.GetLeaderboard up to its query: the parameters normalised
\* once more, then offset := (page - 1) * pageSize.
OffsetPaging ==
    /\ paging.pc = "parsed"
    /\ LET page == IF LessThanOne(paging.page) THEN IntOf(1) ELSE paging.page
           pageSize == IF paging.pageSize < 1 \/ paging.pageSize > 1000
                       THEN 100 ELSE paging.pageSize
       IN paging' = [paging EXCEPT !.pc = "done", !.page = page,
                                   !.pageSize = pageSize,
                                   !.offset = Times(Decrement(page), pageSize)]
    /\ UNCHANGED <<users, userCache, rankCache, rankMu, held, call, setRankTasks,
                   setUserTasks, invTasks, ret, lastWrite, batch, ncalls, nfaults,
                   cfg, limiter, useSearch>>

(***************************************************************************)
(* The frontend's useSearch hook (hooks/useAPI.ts).  The 500 ms of the      *)
(* debounce timer are not counted: a timer that is pending may fire at any  *)
(* step, and a call of debouncedSearch that finds it pending has arrived    *)
(* less than 500 ms after the call that set it.                             *)
(***************************************************************************)
NoQuery == "none"
Null == "null"

\* What the user types: two usernames and a blank.
Queries == {"a", "b", " "}

\* searchQuery.trim()
Trim(q) == IF q = " " THEN "" ELSE q

\* What userAPI.searchUser resolves to for a username.
SearchResult(q) == [username |-> q]

\* result after setResult(null).
NoResult == [username |-> NoQuery]

\* useState('') and so on, useRef(null): nothing typed, no timer, no request.
\* typed, issued, last, cleared and failed record what has happened: the calls
\* of debouncedSearch, the API searches, the last query passed, and whether
\* clearSearch was called or a search failed after it.
NewSearch ==
    [query |-> "", result |-> NoResult, loading |-> FALSE, error |-> Null,
     debounceTimer |-> NoQuery, requests |-> {},
     typed |-> 0, issued |-> 0, burst |-> 0, last |-> NoQuery,
     cleared |-> FALSE, failed |-> FALSE]

HookFrame ==
    UNCHANGED <<users, userCache, rankCache, rankMu, held, call, setRankTasks,
                setUserTasks, invTasks, ret, lastWrite, batch, ncalls, nfaults,
                cfg, limiter, paging>>

\* debouncedSearch(searchQuery): clearTimeout of the pending timer, then a
\* new timer for this query.
debouncedSearch(searchQuery) ==
    /\ useSearch.typed < MaxSearches
    /\ useSearch' = [useSearch EXCEPT
                        !.debounceTimer = searchQuery,
                        !.typed = @ + 1,
                        !.burst = IF useSearch.debounceTimer = NoQuery THEN 0 ELSE @,
                        !.last = searchQuery,
                        !.cleared = FALSE,
                        !.failed = FALSE]
    /\ HookFrame

\* The timer fires and runs search(searchQuery) up to its await: a blank
\* query resets result and query; any other sets loading, error and query and
\* sends the request.
search ==
    /\ useSearch.debounceTimer # NoQuery
    /\ LET searchQuery == useSearch.debounceTimer IN
         useSearch' =
            IF Trim(searchQuery) = ""
            THEN [useSearch EXCEPT !.debounceTimer = NoQuery,
                                   !.result = NoResult, !.query = ""]
            ELSE [useSearch EXCEPT !.debounceTimer = NoQuery,
                                   !.loading = TRUE, !.error = Null,
                                   !.query = searchQuery,
                                   !.issued = @ + 1,
                                   !.burst = @ + 1,
                                   !.requests = @ \cup {[n |-> useSearch.issued + 1,
                                                         q |-> searchQuery]}]
    /\ HookFrame

\* userAPI.searchUser settles and search goes on after its await: setResult
\* on success, setError in the catch, setLoading(false) in the finally.
searchSettled(r, ok) ==
    /\ r \in useSearch.requests
    /\ useSearch' = [useSearch EXCEPT
                        !.requests = @ \ {r},
                        !.result = IF ok THEN SearchResult(r.q) ELSE @,
                        !.error = IF ok THEN @ ELSE "Search failed",
                        !.failed = @ \/ ~ok,
                        !.loading = FALSE]
    /\ HookFrame

\* clearSearch(): query, result and error are reset; the timer and the
\* requests are left alone.
clearSearch ==
    /\ useSearch.last # NoQuery
    /\ ~useSearch.cleared
    /\ useSearch' = [useSearch EXCEPT !.query = "", !.result = NoResult,
                                      !.error = Null, !.cleared = TRUE]
    /\ HookFrame

\* NewUserService: no mutexes, no request, no goroutine.
InitCalls ==
    /\ rankMu = [keys |-> {}, mu |-> "none", made |-> [id \in UserIds |-> 0]]
    /\ held = {}
    /\ call = [c \in Callers |-> Idle]
    /\ setRankTasks = {}
    /\ setUserTasks = {}
    /\ invTasks = {}
    /\ ret = Idle
    /\ lastWrite = NoWrite
    /\ batch = NoBatch
    /\ ncalls = 0
    /\ nfaults = 0
    /\ limiter = NewRateLimiter
    /\ paging = NoPaging
    /\ useSearch = NewSearch

\* NewUserService and an Answer Cache with no keys.
InitService ==
    /\ userCache = [i \in UserIds |-> NoUser]
    /\ rankCache = [i \in UserIds |-> 0]
    /\ InitCalls

Init ==
    /\ users = SeedTable
    /\ cfg = [calls |-> MaxCalls, faults |-> 0, par |-> 2]
    /\ InitService

(***************************************************************************)
(* Bookkeeping shared by the handlers.                                     *)
(***************************************************************************)
\* A store or cache call may still fail in this behaviour.
CanFail == nfaults < cfg.faults

Others(c) == {d \in Callers \ {c} : InFlight(d)}

\* Callers are interchangeable: a request is served by the first free one.
CallerOrder == <<"c1", "c2">>
FreeCaller ==
    LET free == {i \in 1..Len(CallerOrder) : ~InFlight(CallerOrder[i])} IN
        IF free = {} THEN "none" ELSE CallerOrder[Min(free)]

\* No rank entry for the id, none on its way, no invalidation of it pending.
Cold(id) ==
    /\ rankCache[id] = 0
    /\ \A t \in setRankTasks : t.id # id
    /\ \A t \in invTasks : t.id # id

\* The call joins GetRank calls for the same id that have not taken a step yet.
Joins(c, op, id) ==
    /\ op = "rank"
    /\ Others(c) # {}
    /\ Cold(id)
    /\ \A d \in Others(c) :
        /\ call[d].simul
        /\ call[d].op = "rank"
        /\ call[d].id = id
        /\ call[d].pc = "rank_read"

\* The call is a GetRank against a cold cache with nothing else in flight.
Fresh(c, op, id) == op = "rank" /\ Others(c) = {} /\ Cold(id)

\* The latest table mutation is an UpdateScore of id that has returned and
\* whose invalidation goroutine has run to its end.
Settled(id) ==
    /\ lastWrite.kind = "update"
    /\ lastWrite.id = id
    /\ lastWrite.returned
    /\ \A t \in invTasks : ~t.latest

\* The rank the call that has just returned computed for id from the store, the
\* new request being the very next thing to happen; 0 otherwise.
AfterCold(c, id) ==
    IF /\ Others(c) = {}
       /\ invTasks = {}
       /\ ret.op = "rank"
       /\ ret.id = id
       /\ ret.computed
       /\ ret.err = "none"
    THEN ret.rank
    ELSE 0

\* The batch after one of its members has returned rank.
BatchBack(rank) ==
    [batch EXCEPT !.back = @ + 1,
                  !.rank = IF @ = 0 THEN rank ELSE @,
                  !.same = @ /\ (batch.rank = 0 \/ batch.rank = rank)]

\* The call of caller c returns with the record rec.
Return(c, rec) ==
    /\ UNCHANGED <<cfg, limiter, paging, useSearch>>
    /\ call' = [call EXCEPT ![c] = Idle]
    /\ ret' = [rec EXCEPT !.pc = "done"]
    /\ batch' = IF rec.simul THEN BatchBack(rec.rank) ELSE batch
    /\ lastWrite' = IF rec.latest THEN [lastWrite EXCEPT !.returned = TRUE]
                    ELSE lastWrite

\* The call of caller c goes on with the record rec.
Step(c, rec) ==
    /\ UNCHANGED <<cfg, limiter, paging, useSearch>>
    /\ call' = [call EXCEPT ![c] = rec]
    /\ ret' = Idle
    /\ UNCHANGED <<batch, lastWrite>>

Move(c, rec) == IF rec.pc = "done" THEN Return(c, rec) ELSE Step(c, rec)

\* A request arrives and caller c starts serving it at pc0; a request that
\* fails its validation returns at once (pc0 = "done") with the error err.
Begin(c, op, id, arg, name, ctx, pc0, err) ==
    /\ c = FreeCaller
    /\ Cardinality(Others(c)) < cfg.par
    /\ ncalls < cfg.calls
    /\ UNCHANGED <<cfg, limiter, paging, useSearch>>
    /\ ncalls' = ncalls + 1
    /\ LET joins == Joins(c, op, id)
           fresh == Fresh(c, op, id)
           rec == [Idle EXCEPT !.pc = pc0, !.op = op, !.id = id, !.arg = arg,
                               !.name = name, !.ctx = ctx, !.err = err,
                               !.clean = TRUE,
                               !.existed = (GetUserByID(users, id) # NoUser),
                               !.simul = joins \/ fresh,
                               !.alone = (\A d \in Others(c) : call[d].op # "update"),
                               !.settled = (op = "rank" /\ Settled(id)),
                               !.after = IF op = "rank" THEN AfterCold(c, id) ELSE 0]
       IN /\ call' = [d \in Callers |->
                        IF d = c THEN (IF pc0 = "done" THEN Idle ELSE rec)
                        ELSE [call[d] EXCEPT !.simul = joins /\ call[d].simul,
                                             !.alone = @ /\ op # "update"]]
          /\ ret' = IF pc0 = "done" THEN rec ELSE Idle
          /\ batch' = IF joins THEN [batch EXCEPT !.n = @ + 1]
                      ELSE IF fresh THEN [NoBatch EXCEPT !.n = 1, !.id = id]
                      ELSE NoBatch

\* The users table has just been mutated by caller c, whose record becomes rec.
Wrote(c, rec, kind) ==
    /\ UNCHANGED <<cfg, limiter, paging, useSearch>>
    /\ call' = [d \in Callers |->
                  IF d = c THEN [rec EXCEPT !.wrote = TRUE, !.latest = TRUE]
                  ELSE [call[d] EXCEPT !.clean = FALSE, !.latest = FALSE,
                                       !.simul = FALSE]]
    /\ ret' = Idle
    /\ lastWrite' = [kind |-> kind, id |-> rec.id, returned |-> FALSE]
    /\ batch' = NoBatch

(***************************************************************************)
(* CacheManager.                                                           *)
(***************************************************************************)
\* GetRank: the value of rank:{id}, 0 for redis.Nil.
CacheGetRank(cache, userID) == cache[userID]

\* SetRank: rank:{id} := rank.
CacheSetRank(cache, userID, rank) == [cache EXCEPT ![userID] = rank]

\* InvalidateRank: DEL rank:{id}.
CacheInvalidateRank(cache, userID) == [cache EXCEPT ![userID] = 0]

\* GetUser: the row under user:{id}, NoUser for redis.Nil.
CacheGetUser(cache, userID) == cache[userID]

\* SetUser: user:{id} := the row.
CacheSetUser(cache, user) == [cache EXCEPT ![user.id] = user]

\* InvalidateUser: DEL user:{id}.
CacheInvalidateUser(cache, userID) == [cache EXCEPT ![userID] = NoUser]

(***************************************************************************)
(* UserService.GetUserRank, entered from GetRank, GetRecord, UpdateScore   *)
(* and GetPageAround.                                                      *)
(***************************************************************************)
\* GetUserRank returns (rank, err) to the operation that called it.
AfterRank(r, rank, err) ==
    CASE r.op = "rank" ->
            [r EXCEPT !.pc = "done", !.err = err, !.rank = rank]
      [] r.op = "record" ->
            IF err # "none"
            THEN [r EXCEPT !.pc = "done", !.err = err]
            ELSE [r EXCEPT !.pc = "done", !.rank = rank, !.rating = r.user.rating]
      [] r.op = "update" ->
            \* the error is logged; the user is returned with the rank as it is
            [r EXCEPT !.pc = "done", !.err = "none", !.rank = rank, !.rating = r.arg]
      [] OTHER ->
            IF err # "none"
            THEN [r EXCEPT !.pc = "done", !.err = err]
            ELSE [r EXCEPT !.pc = "page_count", !.rank = rank]

StartRank(c, id) ==
    /\ Begin(c, "rank", id, 0, <<>>, 0, "rank_read", "none")
    /\ UNCHANGED <<users, userCache, rankCache, rankMu, held, setRankTasks,
                   setUserTasks, invTasks, lastWrite, nfaults>>

\* A cache error that fails the request.
RankCacheFailed_Fatal(r) == [r EXCEPT !.pc = "done", !.err = "cache", !.cfault = TRUE]

\* "Cache error for rank" is logged; cachedRank is 0 and the call goes on.
RankCacheFailed(r) == [r EXCEPT !.pc = "rank_mutex", !.cfault = TRUE]

\* A hit that goes for the rank mutex all the same.
RankHit_Locked(r, cachedRank) == [r EXCEPT !.pc = "rank_mutex"]

\* if cachedRank > 0 { return cachedRank, nil }
RankHit(r, cachedRank) == AfterRank(r, cachedRank, "none")

\* cachedRank, err := s.cache.GetRank(ctx, userID); a cache error reads as 0.
RankCacheRead(c) ==
    /\ call[c].pc = "rank_read"
    /\ \E ok \in BOOLEAN :
        /\ ~ok => (CanFail /\ rankCache[call[c].id] > 0)
        /\ nfaults' = IF ok THEN nfaults ELSE nfaults + 1
        /\ IF ~ok THEN Move(c, RankCacheFailed(call[c]))
           ELSE LET cachedRank == CacheGetRank(rankCache, call[c].id) IN
             IF cachedRank > 0
             THEN Move(c, RankHit(call[c], cachedRank))
             ELSE Step(c, [call[c] EXCEPT !.pc = "rank_mutex"])
    /\ UNCHANGED <<users, userCache, rankCache, rankMu, held, setRankTasks,
                   setUserTasks, invTasks, ncalls>>

\* getRankMutex: s.mu.Lock() returns once s.mu is free.
MapLock(c) ==
    /\ call[c].pc = "rank_mutex"
    /\ rankMu.mu = "none"
    /\ rankMu' = [rankMu EXCEPT !.mu = c]
    /\ Step(c, [call[c] EXCEPT !.pc = "rank_mutex_in"])
    /\ UNCHANGED <<users, userCache, rankCache, held, setRankTasks,
                   setUserTasks, invTasks, ncalls, nfaults>>

\* A lookup that puts a new mutex into the map at every call.
MutexesMade_Always(m, made, id) == made + 1

\* if mu, exists := s.rankMu[userID]; exists { return mu }, else a new
\* sync.Mutex is stored: the number of mutexes made for the id so far.  The
\* mutex the call returns is the latest of them.
MutexesMade(m, made, id) == IF id \in m.keys THEN made ELSE made + 1

\* getRankMutex under s.mu: the id's mutex, created if it has none, is
\* returned and the deferred s.mu.Unlock() runs.  A GetRank caller will have
\* to wait in rankMu.Lock() if the mutex is locked now (waited, kept until the
\* re-read of the cache).
getRankMutex(c) ==
    /\ call[c].pc = "rank_mutex_in"
    /\ rankMu' = [keys |-> rankMu.keys \cup {call[c].id}, mu |-> "none",
                  made |-> [rankMu.made EXCEPT ![call[c].id] = MutexesMade(rankMu, @, call[c].id)]]
    /\ Step(c, [call[c] EXCEPT !.pc = "rank_lock",
                               !.waited = (call[c].op = "rank" /\ call[c].id \in held)])
    /\ UNCHANGED <<users, userCache, rankCache, held, setRankTasks,
                   setUserTasks, invTasks, ncalls, nfaults>>

\* One mutex for all ids.
MutexFree_Global(id) == held = {}

\* A Lock that returns at once, whoever holds the mutex.
MutexFree_NoExclusion(id) == TRUE

\* sync.Mutex.Lock returns once the mutex is free.
MutexFree(id) == id \notin held

\* rankMu.Lock()
RankLock(c) ==
    /\ call[c].pc = "rank_lock"
    /\ MutexFree(call[c].id)
    /\ held' = held \cup {call[c].id}
    /\ Step(c, [call[c] EXCEPT !.pc = "rank_recheck"])
    /\ UNCHANGED <<users, userCache, rankCache, rankMu, setRankTasks,
                   setUserTasks, invTasks, ncalls, nfaults>>

\* An Unlock that is skipped when the call returns an error.
Unlock_NotOnError(h, id, err) == IF err = "none" THEN h \ {id} ELSE h

\* defer rankMu.Unlock(): it runs at every return of GetUserRank that comes
\* after rankMu.Lock(), whatever the call returns.
Unlock(h, id, err) == h \ {id}

\* No second look at the cache.
Rechecked_Skipped(cache, userID, ok) == 0

\* cachedRank, _ = s.cache.GetRank(ctx, userID): the error is dropped, a failed
\* read leaves 0.
Rechecked(cache, userID, ok) == IF ok THEN CacheGetRank(cache, userID) ELSE 0

\* cachedRank, _ = s.cache.GetRank(ctx, userID) under the lock; on a hit the
\* deferred Unlock runs and the cached rank is returned.  With a cancelled ctx
\* the read may fail, which reads as 0.
RankRecheck(c) ==
    /\ call[c].pc = "rank_recheck"
    /\ \E ok \in BOOLEAN :
        /\ ~ok => (call[c].cancelled \/ (CanFail /\ rankCache[call[c].id] > 0))
        /\ nfaults' = IF ok \/ call[c].cancelled THEN nfaults ELSE nfaults + 1
        /\ LET cachedRank == Rechecked(rankCache, call[c].id, ok) IN
             IF cachedRank > 0
             THEN /\ held' = Unlock(held, call[c].id, "none")
                  /\ Move(c, AfterRank(call[c], cachedRank, "none"))
             ELSE /\ held' = held
                  /\ Step(c, [call[c] EXCEPT !.pc = "rank_scan",
                                             !.waited = FALSE,
                                             !.cfault = @ \/ ~ok])
    /\ UNCHANGED <<users, userCache, rankCache, rankMu, setRankTasks,
                   setUserTasks, invTasks, ncalls>>

\* The context of a caller that waits for the rank mutex another caller holds
\* is cancelled: the client has gone or the request has timed out.
Cancel(c) ==
    /\ call[c].pc = "rank_lock"
    /\ ~MutexFree(call[c].id)
    /\ ~call[c].cancelled
    /\ Step(c, [call[c] EXCEPT !.cancelled = TRUE])
    /\ UNCHANGED <<users, userCache, rankCache, rankMu, held, setRankTasks,
                   setUserTasks, invTasks, ncalls, nfaults>>

\* s.repo.CalculateRank, first query: the target user's rating; with a
\* cancelled ctx the query returns the context's error.
RankScan(c) ==
    /\ call[c].pc = "rank_scan"
    /\ \/ /\ ~call[c].cancelled
          /\ call' = [call EXCEPT ![c] = [call[c] EXCEPT
                                              !.pc = "rank_count",
                                              !.computed = TRUE,
                                              !.target = ScanRating(users, call[c].id)]]
          /\ batch' = IF call[c].simul THEN [batch EXCEPT !.calcs = @ + 1] ELSE batch
          /\ ret' = Idle
          /\ UNCHANGED <<cfg, limiter, paging, useSearch>>
          /\ UNCHANGED <<held, nfaults, lastWrite>>
       \/ /\ CanFail
          /\ nfaults' = nfaults + 1
          /\ held' = Unlock(held, call[c].id, "store")
          /\ Move(c, AfterRank([call[c] EXCEPT !.computed = TRUE, !.fault = "rank"],
                               0, "store"))
       \/ /\ call[c].cancelled
          /\ held' = Unlock(held, call[c].id, "cancelled")
          /\ Move(c, AfterRank([call[c] EXCEPT !.computed = TRUE], 0, "cancelled"))
          /\ UNCHANGED nfaults
    /\ UNCHANGED <<users, userCache, rankCache, rankMu, setRankTasks,
                   setUserTasks, invTasks, ncalls>>

\* s.repo.CalculateRank, second query: the count of higher ratings; then
\* "go SetRank", the deferred Unlock and the return of rank.
RankCount(c) ==
    /\ call[c].pc = "rank_count"
    /\ \/ /\ LET rank == RankFromCount(users, call[c].target) IN
               /\ setRankTasks' = setRankTasks \cup {[id |-> call[c].id, rank |-> rank]}
               /\ Move(c, AfterRank(call[c], rank, "none"))
          /\ held' = Unlock(held, call[c].id, "none")
          /\ UNCHANGED nfaults
       \/ /\ CanFail
          /\ nfaults' = nfaults + 1
          /\ held' = Unlock(held, call[c].id, "store")
          /\ Move(c, AfterRank([call[c] EXCEPT !.fault = "rank"], 0, "store"))
          /\ UNCHANGED setRankTasks
    /\ UNCHANGED <<users, userCache, rankCache, rankMu, setUserTasks, invTasks,
                   ncalls>>

\* The goroutine of GetUserRank: s.cache.SetRank(userID, rank); a failure is
\* logged.
RunSetRank(t) ==
    /\ t \in setRankTasks
    /\ setRankTasks' = setRankTasks \ {t}
    /\ \/ /\ rankCache' = CacheSetRank(rankCache, t.id, t.rank)
          /\ UNCHANGED nfaults
       \/ /\ CanFail
          /\ nfaults' = nfaults + 1
          /\ UNCHANGED rankCache
    /\ ret' = Idle
    /\ UNCHANGED <<cfg, limiter, paging, useSearch>>
    /\ UNCHANGED <<users, userCache, rankMu, held, call, setUserTasks, invTasks,
                   lastWrite, batch, ncalls>>

\* CacheRankTTL runs out: the key rank:{id} disappears.
ExpireRank(id) ==
    /\ rankCache[id] > 0
    /\ rankCache' = [rankCache EXCEPT ![id] = 0]
    /\ ret' = Idle
    /\ UNCHANGED <<cfg, limiter, paging, useSearch>>
    /\ batch' = NoBatch
    /\ call' = [d \in Callers |->
                  [call[d] EXCEPT !.simul = FALSE,
                                  !.after = IF call[d].id = id THEN 0 ELSE @]]
    /\ UNCHANGED <<users, userCache, rankMu, held, setRankTasks, setUserTasks,
                   invTasks, lastWrite, ncalls, nfaults>>


(***************************************************************************)
(* UserService.GetUserByID (GetRecord).                                    *)
(***************************************************************************)
StartRecord(c, id) ==
    /\ Begin(c, "record", id, 0, <<>>, 0, "rec_cache", "none")
    /\ UNCHANGED <<users, userCache, rankCache, rankMu, held, setRankTasks,
                   setUserTasks, invTasks, lastWrite, nfaults>>

\* user, err := s.cache.GetUser(ctx, userID); a cache error reads as nil.
RecordCacheRead(c) ==
    /\ call[c].pc = "rec_cache"
    /\ \E ok \in BOOLEAN :
        /\ ~ok => (CanFail /\ userCache[call[c].id] # NoUser)
        /\ nfaults' = IF ok THEN nfaults ELSE nfaults + 1
        /\ LET user == IF ok THEN CacheGetUser(userCache, call[c].id) ELSE NoUser IN
             IF user # NoUser
             THEN Step(c, [call[c] EXCEPT !.pc = "rank_read", !.user = user])
             ELSE Step(c, [call[c] EXCEPT !.pc = "rec_db", !.cfault = ~ok])
    /\ UNCHANGED <<users, userCache, rankCache, rankMu, held, setRankTasks,
                   setUserTasks, invTasks, ncalls>>

\* A lookup that found no row and goes on to the rank all the same.
RecordMissing_RankAnyway(r) == [r EXCEPT !.pc = "rank_read"]

\* dbUser == nil: "user not found" is returned.
RecordMissing(r) == [r EXCEPT !.pc = "done", !.err = "notfound"]

\* dbUser, err := s.repo.GetUserByID(ctx, userID), then "go SetUser".
RecordDbRead(c) ==
    /\ call[c].pc = "rec_db"
    /\ \/ /\ LET dbUser == GetUserByID(users, call[c].id) IN
               IF dbUser = NoUser
               THEN /\ Move(c, RecordMissing(call[c]))
                    /\ UNCHANGED setUserTasks
               ELSE /\ Step(c, [call[c] EXCEPT !.pc = "rank_read", !.user = dbUser,
                                               !.fromdb = TRUE])
                    /\ setUserTasks' = setUserTasks \cup {dbUser}
          /\ UNCHANGED nfaults
       \/ /\ CanFail
          /\ nfaults' = nfaults + 1
          /\ Move(c, [call[c] EXCEPT !.pc = "done", !.err = "store",
                                     !.fault = "lookup"])
          /\ UNCHANGED setUserTasks
    /\ UNCHANGED <<users, userCache, rankCache, rankMu, held, setRankTasks,
                   invTasks, ncalls>>

\* The goroutine of GetUserByID: s.cache.SetUser(user); a failure is logged.
RunSetUser(t) ==
    /\ t \in setUserTasks
    /\ setUserTasks' = setUserTasks \ {t}
    /\ \/ /\ userCache' = CacheSetUser(userCache, t)
          /\ UNCHANGED nfaults
       \/ /\ CanFail
          /\ nfaults' = nfaults + 1
          /\ UNCHANGED userCache
    /\ ret' = Idle
    /\ UNCHANGED <<cfg, limiter, paging, useSearch>>
    /\ UNCHANGED <<users, rankCache, rankMu, held, call, setRankTasks, invTasks,
                   lastWrite, batch, ncalls>>

\* CacheUserTTL runs out: the key user:{id} disappears.
ExpireUser(id) ==
    /\ userCache[id] # NoUser
    /\ userCache' = [userCache EXCEPT ![id] = NoUser]
    /\ ret' = Idle
    /\ UNCHANGED <<cfg, limiter, paging, useSearch>>
    /\ UNCHANGED <<users, rankCache, rankMu, held, call, setRankTasks,
                   setUserTasks, invTasks, lastWrite, batch, ncalls, nfaults>>

(***************************************************************************)
(* UserService.UpdateUserRating (UpdateScore).                             *)
(***************************************************************************)
\* ValidateRating(newRating) comes first; a bad rating returns at once.
StartUpdate(c, id, newRating) ==
    /\ IF ValidateRating(newRating)
       THEN Begin(c, "update", id, newRating, <<>>, 0, "upd_get", "none")
       ELSE Begin(c, "update", id, newRating, <<>>, 0, "done", "validation")
    /\ UNCHANGED <<users, userCache, rankCache, rankMu, held, setRankTasks,
                   setUserTasks, invTasks, lastWrite, nfaults>>

\* A call that goes on to the write although the store has no row for the id.
UserMissing_WriteAnyway(r) == [r EXCEPT !.pc = "upd_write"]

\* if user == nil: the call returns "user not found".
UserMissing(r) == [r EXCEPT !.pc = "done", !.err = "notfound"]

\* user, err := s.repo.GetUserByID(ctx, userID)
UpdateGet(c) ==
    /\ call[c].pc = "upd_get"
    /\ \/ /\ LET user == GetUserByID(users, call[c].id) IN
               IF user = NoUser
               THEN Move(c, UserMissing(call[c]))
               ELSE Step(c, [call[c] EXCEPT !.pc = "upd_write", !.user = user])
          /\ UNCHANGED nfaults
       \/ /\ CanFail
          /\ nfaults' = nfaults + 1
          /\ Move(c, [call[c] EXCEPT !.pc = "done", !.err = "store",
                                     !.fault = "lookup"])
    /\ UNCHANGED <<users, userCache, rankCache, rankMu, held, setRankTasks,
                   setUserTasks, invTasks, ncalls>>

\* A call that waits for the invalidation goroutine before it goes on.
AfterWrite_Awaiting(r) ==
    [r EXCEPT !.pc = "upd_wait", !.spawned = TRUE, !.user = [@ EXCEPT !.rating = r.arg]]

\* The write has succeeded: user.Rating = newRating, "go func" starts the
\* invalidation and the call goes on with GetUserRank.
AfterWrite(r) ==
    [r EXCEPT !.pc = "rank_read", !.spawned = TRUE, !.user = [@ EXCEPT !.rating = r.arg]]

\* A write that failed, taken for a success.
WriteFailed_Ignored(r) == [r EXCEPT !.pc = "done", !.err = "none", !.fault = "write"]

\* "failed to update rating": the call returns the store's error.
WriteFailed(r) == [r EXCEPT !.pc = "done", !.err = "store", !.fault = "write"]

\* The call is about to write the rating that the UpdateScore before it, the
\* latest request to change the table and one that has returned, wrote for the
\* same id.
SecondInARow(c) ==
    /\ call[c].op = "update"
    /\ call[c].pc = "upd_write"
    /\ lastWrite = [kind |-> "update", id |-> call[c].id, returned |-> TRUE]
    /\ GetUserByID(users, call[c].id).rating = call[c].arg

\* An invalidation that is skipped when the row already has the new rating.
InvalidationFor_OnChange(r) ==
    IF r.user.rating = r.arg THEN {}
    ELSE {[id |-> r.id, step |-> "user", latest |-> TRUE]}

\* go func: the invalidation goroutine of this call, about to delete user:{id}.
InvalidationFor(r) == {[id |-> r.id, step |-> "user", latest |-> TRUE]}

\* s.repo.UpdateUserRating(ctx, userID, newRating); on success user.Rating is
\* set and the invalidation goroutine is started; on failure the error is
\* returned.
UpdateWrite(c) ==
    /\ call[c].pc = "upd_write"
    /\ \/ /\ users' = UpdateUserRating(users, call[c].id, call[c].arg)
          /\ Wrote(c, [AfterWrite(call[c]) EXCEPT !.repeat = SecondInARow(c)], "update")
          /\ invTasks' = {[t EXCEPT !.latest = FALSE] : t \in invTasks}
                         \cup InvalidationFor(call[c])
          /\ UNCHANGED nfaults
       \/ /\ CanFail
          /\ nfaults' = nfaults + 1
          /\ Move(c, WriteFailed(call[c]))
          /\ UNCHANGED <<users, invTasks>>
    /\ UNCHANGED <<userCache, rankCache, rankMu, held, setRankTasks,
                   setUserTasks, ncalls>>

\* A goroutine that gives up at its first failed deletion.
NextInvStep_Abort(step, ok) ==
    IF ~ok THEN "done"
    ELSE IF step = "user" THEN "rank" ELSE IF step = "rank" THEN "board" ELSE "done"

\* What the goroutine does after a deletion, failed (logged) or not: the next
\* deletion, or the end after InvalidateLeaderboard.
NextInvStep(step, ok) ==
    IF step = "user" THEN "rank" ELSE IF step = "rank" THEN "board" ELSE "done"

\* The goroutine of UpdateUserRating: InvalidateUser, InvalidateRank,
\* InvalidateLeaderboard, one cache command at a time; a failed command is
\* logged and the next one is issued.  No code sets the leaderboard key.
RunInvalidate(t) ==
    /\ t \in invTasks
    /\ \E ok \in BOOLEAN :
        /\ ~ok => CanFail
        /\ nfaults' = IF ok THEN nfaults ELSE nfaults + 1
        /\ userCache' = IF ok /\ t.step = "user"
                        THEN CacheInvalidateUser(userCache, t.id) ELSE userCache
        /\ rankCache' = IF ok /\ t.step = "rank"
                        THEN CacheInvalidateRank(rankCache, t.id) ELSE rankCache
        /\ LET next == NextInvStep(t.step, ok) IN
             invTasks' = IF next = "done" THEN invTasks \ {t}
                         ELSE (invTasks \ {t}) \cup {[t EXCEPT !.step = next]}
    /\ ret' = Idle
    /\ UNCHANGED <<cfg, limiter, paging, useSearch>>
    /\ UNCHANGED <<users, rankMu, held, call, setRankTasks, setUserTasks,
                   lastWrite, batch, ncalls>>

(***************************************************************************)
(* UserService.CreateUser.                                                 *)
(***************************************************************************)
StartCreate(c, id, username, initialRating) ==
    /\ IF ValidateUsername(username) /\ ValidateRating(initialRating)
       THEN Begin(c, "create", id, initialRating, username, 0, "cr_check", "none")
       ELSE Begin(c, "create", id, initialRating, username, 0, "done", "validation")
    /\ UNCHANGED <<users, userCache, rankCache, rankMu, held, setRankTasks,
                   setUserTasks, invTasks, lastWrite, nfaults>>

\* existingUser, err := s.repo.GetUserByUsername(ctx, username)
CreateCheck(c) ==
    /\ call[c].pc = "cr_check"
    /\ \/ /\ IF GetUserByUsername(users, call[c].name) # NoUser
             THEN Move(c, [call[c] EXCEPT !.pc = "done", !.err = "exists"])
             ELSE Step(c, [call[c] EXCEPT !.pc = "cr_insert"])
          /\ UNCHANGED nfaults
       \/ /\ CanFail
          /\ nfaults' = nfaults + 1
          /\ Move(c, [call[c] EXCEPT !.pc = "done", !.err = "store",
                                     !.fault = "lookup"])
    /\ UNCHANGED <<users, userCache, rankCache, rankMu, held, setRankTasks,
                   setUserTasks, invTasks, ncalls>>

\* s.repo.CreateUser(ctx, user): INSERT, refused by the primary key or the
\* unique username index.
CreateInsert(c) ==
    /\ call[c].pc = "cr_insert"
    /\ LET user == [id |-> call[c].id, username |-> call[c].name,
                    rating |-> call[c].arg] IN
        \/ /\ CanInsert(users, user)
           /\ users' = Append(users, user)
           /\ Wrote(c, [call[c] EXCEPT !.pc = "cr_cache", !.user = user], "create")
           /\ invTasks' = {[t EXCEPT !.latest = FALSE] : t \in invTasks}
           /\ UNCHANGED nfaults
        \/ /\ ~CanInsert(users, user)
           /\ Move(c, [call[c] EXCEPT !.pc = "done", !.err = "store",
                                      !.fault = "constraint"])
           /\ UNCHANGED <<users, invTasks, nfaults>>
        \/ /\ CanFail
           /\ nfaults' = nfaults + 1
           /\ Move(c, [call[c] EXCEPT !.pc = "done", !.err = "store",
                                      !.fault = "write"])
           /\ UNCHANGED <<users, invTasks>>
    /\ UNCHANGED <<userCache, rankCache, rankMu, held, setRankTasks,
                   setUserTasks, ncalls>>

\* s.cache.SetUser(ctx, user), awaited; a failure is logged.
CreateCache(c) ==
    /\ call[c].pc = "cr_cache"
    /\ \/ /\ userCache' = CacheSetUser(userCache, call[c].user)
          /\ UNCHANGED nfaults
          /\ Move(c, [call[c] EXCEPT !.pc = "done", !.rating = call[c].arg])
       \/ /\ CanFail
          /\ nfaults' = nfaults + 1
          /\ UNCHANGED userCache
          /\ Move(c, [call[c] EXCEPT !.pc = "done", !.rating = call[c].arg,
                                     !.cfault = TRUE])
    /\ UNCHANGED <<users, rankCache, rankMu, held, setRankTasks, setUserTasks,
                   invTasks, ncalls>>

(***************************************************************************)
(* UserService.GetLeaderboard and GetLeaderboardAroundUser (GetPageAround).*)
(***************************************************************************)
\* ORDER BY rating DESC alone.
RowBefore_RatingOnly(a, b) == a.rating > b.rating

\* ORDER BY rating DESC, username ASC
RowBefore(a, b) ==
    \/ a.rating > b.rating
    \/ a.rating = b.rating /\ NameLess(a.username, b.username)

RECURSIVE InsertRow(_, _)
InsertRow(row, s) ==
    IF s = <<>> THEN <<row>>
    ELSE IF RowBefore(row, Head(s)) THEN <<row>> \o s
    ELSE <<Head(s)>> \o InsertRow(row, Tail(s))

RECURSIVE OrderRows(_)
OrderRows(t) ==
    IF t = <<>> THEN <<>>
    ELSE InsertRow(t[Len(t)], OrderRows(SubSeq(t, 1, Len(t) - 1)))

\* UserRepository.GetLeaderboard, second query: Order, Offset(offset), Limit(limit).
FetchPage(t, offset, limit) ==
    LET s == OrderRows(t)
        last == IF offset + limit < Len(s) THEN offset + limit ELSE Len(s)
    IN SubSeq(s, offset + 1, last)

\* A rank that is the position of the row, tie or not.
EntryRank_Positional(user, offset, i, currentRank, previousRating) == offset + i + 1

\* if user.Rating != previousRating { currentRank = int64(offset + i + 1) }
EntryRank(user, offset, i, currentRank, previousRating) ==
    IF user.rating # previousRating THEN offset + i + 1 ELSE currentRank

\* The loop of GetLeaderboard over the fetched rows, from index i on.
RECURSIVE RankEntries(_, _, _, _, _)
RankEntries(rows, offset, i, currentRank, previousRating) ==
    IF i >= Len(rows) THEN <<>>
    ELSE LET user == rows[i + 1]
             rank == EntryRank(user, offset, i, currentRank, previousRating)
         IN <<[rank |-> rank, username |-> user.username, rating |-> user.rating]>>
            \o RankEntries(rows, offset, i + 1, rank, user.rating)

\* GetLeaderboard's page and pageSize after its parameter checks.
PageParam(page) == IF page < 1 THEN 1 ELSE page
PageSizeParam(pageSize) == IF pageSize < 1 \/ pageSize > 1000 THEN 100 ELSE pageSize

\* hasMore with its comparison turned inclusive.
HasMore_Inclusive(offset, pageSize, total) == offset + pageSize <= total

\* hasMore := offset+int(int64(pageSize)) < int(total)
HasMore(offset, pageSize, total) == offset + pageSize < total

\* The LeaderboardResponse GetLeaderboard builds from the rows and the total.
LeaderboardResponse(rows, total, page0, pageSize0) ==
    LET page == PageParam(page0)
        pageSize == PageSizeParam(pageSize0)
        offset == (page - 1) * pageSize
    IN [entries |-> RankEntries(rows, offset, 0, 1, -1),
        total |-> total, page |-> page, pageSize |-> pageSize,
        hasMore |-> HasMore(offset, pageSize, total)]

\* The page that holds the position rank.
AroundPage_Holding(rank, contextSize) == ((rank - 1) \div (contextSize * 2)) + 1

\* GetLeaderboardAroundUser: the page and page size it asks GetLeaderboard for.
AroundPageSize(contextSize) == contextSize * 2
AroundPage(rank, contextSize) ==
    IF rank > contextSize
    THEN LET page == (rank - contextSize) \div AroundPageSize(contextSize) IN
            IF page < 1 THEN 1 ELSE page
    ELSE 1

\* GetLeaderboard called by the controller with page and pageSize.
StartPage(c, page, pageSize) ==
    /\ Begin(c, "page", "none", page, <<>>, pageSize, "page_count", "none")
    /\ UNCHANGED <<users, userCache, rankCache, rankMu, held, setRankTasks,
                   setUserTasks, invTasks, lastWrite, nfaults>>

\* The page and page size GetLeaderboard is called with: the request's own, or
\* those GetLeaderboardAroundUser derived from the rank.
ReqPage(r) == IF r.op = "page" THEN r.arg ELSE AroundPage(r.rank, r.ctx)
ReqPageSize(r) == IF r.op = "page" THEN r.ctx ELSE AroundPageSize(r.ctx)

\* GetLeaderboard on a table that does not change between its two queries.
GetLeaderboard(t, page0, pageSize0) ==
    LET page == PageParam(page0)
        pageSize == PageSizeParam(pageSize0)
    IN LeaderboardResponse(FetchPage(t, (page - 1) * pageSize, pageSize),
                           Len(t), page0, pageSize0)

StartAround(c, id, contextSize) ==
    /\ Begin(c, "around", id, 0, <<>>, contextSize, "rank_read", "none")
    /\ UNCHANGED <<users, userCache, rankCache, rankMu, held, setRankTasks,
                   setUserTasks, invTasks, lastWrite, nfaults>>

\* UserRepository.GetLeaderboard, first query: COUNT(*) of users.
PageCount(c) ==
    /\ call[c].pc = "page_count"
    /\ \/ /\ Step(c, [call[c] EXCEPT !.pc = "page_fetch", !.total = Len(users)])
          /\ UNCHANGED nfaults
       \/ /\ CanFail
          /\ nfaults' = nfaults + 1
          /\ Move(c, [call[c] EXCEPT !.pc = "done", !.err = "store",
                                     !.fault = "page"])
    /\ UNCHANGED <<users, userCache, rankCache, rankMu, held, setRankTasks,
                   setUserTasks, invTasks, ncalls>>

\* UserRepository.GetLeaderboard, second query, and the response.
PageFetch(c) ==
    /\ call[c].pc = "page_fetch"
    /\ \/ /\ LET page == PageParam(ReqPage(call[c]))
                 pageSize == PageSizeParam(ReqPageSize(call[c]))
                 rows == FetchPage(users, (page - 1) * pageSize, pageSize)
             IN Move(c, [call[c] EXCEPT
                           !.pc = "done",
                           !.page = LeaderboardResponse(rows, call[c].total,
                                                        page, pageSize)])
          /\ UNCHANGED nfaults
       \/ /\ CanFail
          /\ nfaults' = nfaults + 1
          /\ Move(c, [call[c] EXCEPT !.pc = "done", !.err = "store",
                                     !.fault = "page"])
    /\ UNCHANGED <<users, userCache, rankCache, rankMu, held, setRankTasks,
                   setUserTasks, invTasks, ncalls>>

(***************************************************************************)
(* The requests of the model and the specification.                        *)
(***************************************************************************)
(* Requests.                                                               *)
(***************************************************************************)
\* GetRank: an id at the top, one at the bottom, one with no row.
RankIds == {"u1", "u2", "u3"}
\* GetRecord: an id with a row and one with none.
RecordIds == {"u2", "u3"}
\* UpdateScore: both sides of each rating limit, a rating that ties two rows,
\* and an id with no row.
UpdateInputs ==
    { <<"u2", MinRating - 1>>, <<"u2", MinRating>>, <<"u2", MaxRating>>,
      <<"u2", MaxRating + 1>>, <<"u1", MinRating>>, <<"u3", MinRating>> }
\* CreateUser: a new user, a taken name in another case, a name too short, a
\* taken id.
CreateInputs ==
    { <<"u3", NameC, MinRating>>, <<"u3", <<"B", "b", "b">>, MinRating>>,
      <<"u3", <<"a", "b">>, MinRating>>, <<"u1", NameC, MinRating>> }
\* GetPageAround: an id and a context size.
AroundInputs == { <<"u2", 1>> }
\* GetPage: a page and a page size.
PageInputs == { <<2, 1>> }

\* The steps of GetUserRank and its goroutine.
RankSteps ==
    \/ \E c \in Callers : RankCacheRead(c)
    \/ \E c \in Callers : MapLock(c)
    \/ \E c \in Callers : getRankMutex(c)
    \/ \E c \in Callers : RankLock(c)
    \/ \E c \in Callers : RankRecheck(c)
    \/ \E c \in Callers : RankScan(c)
    \/ \E c \in Callers : RankCount(c)
    \/ \E t \in setRankTasks : RunSetRank(t)
    \/ \E id \in UserIds : ExpireRank(id)

\* The steps of UpdateUserRating and its goroutine.
UpdateSteps ==
    \/ \E c \in Callers : UpdateGet(c)
    \/ \E c \in Callers : UpdateWrite(c)
    \/ \E t \in invTasks : RunInvalidate(t)

\* The steps of GetUserByID, CreateUser and GetLeaderboardAroundUser.
OtherSteps ==
    \/ \E c \in Callers : RecordCacheRead(c)
    \/ \E c \in Callers : RecordDbRead(c)
    \/ \E t \in setUserTasks : RunSetUser(t)
    \/ \E id \in UserIds : ExpireUser(id)
    \/ \E c \in Callers : CreateCheck(c)
    \/ \E c \in Callers : CreateInsert(c)
    \/ \E c \in Callers : CreateCache(c)
    \/ \E c \in Callers : PageCount(c)
    \/ \E c \in Callers : PageFetch(c)

\* The service under requests of every kind.
Next ==
    \/ \E c \in Callers, id \in RankIds : StartRank(c, id)
    \/ \E c \in Callers, id \in RecordIds : StartRecord(c, id)
    \/ \E c \in Callers, u \in UpdateInputs : StartUpdate(c, u[1], u[2])
    \/ \E c \in Callers, n \in CreateInputs : StartCreate(c, n[1], n[2], n[3])
    \/ \E c \in Callers, a \in AroundInputs : StartAround(c, a[1], a[2])
    \/ \E c \in Callers, g \in PageInputs : StartPage(c, g[1], g[2])
    \/ RankSteps
    \/ UpdateSteps
    \/ OtherSteps

\* Up to two requests at a time, no store or cache failures.
Spec == Init /\ [][Next]_vars

\* One request at a time (the goroutines of earlier requests still run), no
\* failures: GetRank and UpdateScore of one id.
SeqRankIds == {"u2"}
SeqUpdateInputs == { <<"u2", MaxRating>>, <<"u2", MinRating>> }

InitSeq ==
    /\ users = SeedTable
    /\ cfg = [calls |-> MaxSeqCalls, faults |-> 0, par |-> 1]
    /\ InitService

NextSeq ==
    \/ \E c \in Callers, id \in SeqRankIds : StartRank(c, id)
    \/ \E c \in Callers, u \in SeqUpdateInputs : StartUpdate(c, u[1], u[2])
    \/ RankSteps
    \/ UpdateSteps

SpecSeq == InitSeq /\ [][NextSeq]_vars

\* Requests of every kind with store and cache failures.
InitFault ==
    /\ users = SeedTable
    /\ cfg = [calls |-> MaxFaultCalls, faults |-> MaxFaults, par |-> 2]
    /\ InitService

SpecFault == InitFault /\ [][Next]_vars

\* GetRank, GetRecord, UpdateScore and CreateUser with store and cache
\* failures, on an Answer Cache that earlier requests have filled for u2: its
\* row and its rank.
InitWarm ==
    /\ users = SeedTable
    /\ cfg = [calls |-> MaxFaultCalls, faults |-> MaxFaults, par |-> 2]
    /\ userCache = [i \in UserIds |-> IF i = "u2" THEN SeedTable[2] ELSE NoUser]
    /\ rankCache = [i \in UserIds |-> IF i = "u2" THEN 2 ELSE 0]
    /\ InitCalls

NextWarm ==
    \/ \E c \in Callers : StartRank(c, "u2")
    \/ \E c \in Callers : StartRecord(c, "u2")
    \/ \E c \in Callers : StartUpdate(c, "u2", MaxRating)
    \/ \E c \in Callers : StartCreate(c, "u3", NameC, MinRating)
    \/ RankSteps
    \/ UpdateSteps
    \/ \E c \in Callers : RecordCacheRead(c)
    \/ \E c \in Callers : RecordDbRead(c)
    \/ \E t \in setUserTasks : RunSetUser(t)
    \/ \E id \in UserIds : ExpireUser(id)
    \/ \E c \in Callers : CreateCheck(c)
    \/ \E c \in Callers : CreateInsert(c)
    \/ \E c \in Callers : CreateCache(c)

SpecWarm == InitWarm /\ [][NextWarm]_vars

\* The goroutines of UpdateUserRating are scheduled: one that has started is
\* not left waiting forever.
\* UpdateScore requests, one at a time, with cache failures, on the filled
\* Answer Cache.
InitInv ==
    /\ users = SeedTable
    /\ cfg = [calls |-> MaxFaultCalls, faults |-> MaxFaults, par |-> 1]
    /\ userCache = [i \in UserIds |-> IF i = "u2" THEN SeedTable[2] ELSE NoUser]
    /\ rankCache = [i \in UserIds |-> IF i = "u2" THEN 2 ELSE 0]
    /\ InitCalls

NextInv ==
    \/ \E c \in Callers, u \in SeqUpdateInputs : StartUpdate(c, u[1], u[2])
    \/ RankSteps
    \/ UpdateSteps

SpecInv ==
    InitInv /\ [][NextInv]_vars /\ WF_vars(\E t \in invTasks : RunInvalidate(t))

\* The README's tie example: four users rated 5000, 4500, 4500, 4000, inserted
\* in any order, asked for their ranks.
TieRows ==
    { [id |-> "u1", username |-> NameA, rating |-> 5000],
      [id |-> "u2", username |-> NameB, rating |-> 4500],
      [id |-> "u3", username |-> NameC, rating |-> 4500],
      [id |-> "u4", username |-> NameD, rating |-> 4000] }

InitTie ==
    /\ users \in {t \in [1..4 -> TieRows] : \A i, j \in 1..4 : t[i] = t[j] => i = j}
    /\ cfg = [calls |-> MaxTieCalls, faults |-> 0, par |-> 2]
    /\ InitService

NextTie ==
    \/ \E c \in Callers, id \in UserIds : StartRank(c, id)
    \/ RankSteps

SpecTie == InitTie /\ [][NextTie]_vars

\* One GetPage or GetPageAround request on a table that no request changes:
\* the README's four users, or the first few of them, inserted in any order.
PageTables ==
    { SubSeq(t, 1, n) :
        t \in {q \in [1..4 -> TieRows] : \A i, j \in 1..4 : q[i] = q[j] => i = j},
        n \in 0..4 }

InitPage ==
    /\ users \in PageTables
    /\ cfg = [calls |-> 1, faults |-> 0, par |-> 1]
    /\ InitService

NextPage ==
    \/ \E c \in Callers, page \in 0..MaxPage, pageSize \in 0..MaxPageSize :
          StartPage(c, page, pageSize)
    \/ \E c \in Callers, id \in UserIds, k \in 1..MaxContext : StartAround(c, id, k)
    \/ \E c \in Callers : PageCount(c)
    \/ \E c \in Callers : PageFetch(c)
    \/ RankSteps

SpecPage == InitPage /\ [][NextPage]_vars

\* Two callers at a time on the four operations that ask for a rank.
LockRankIds == {"u1", "u2"}

InitLock ==
    /\ users = SeedTable
    /\ cfg = [calls |-> MaxLockCalls, faults |-> 0, par |-> 2]
    /\ InitService

NextLock ==
    \/ \E c \in Callers, id \in LockRankIds : StartRank(c, id)
    \/ \E c \in Callers : StartRecord(c, "u2")
    \/ \E c \in Callers : StartUpdate(c, "u2", MaxRating)
    \/ \E c \in Callers : StartAround(c, "u2", 1)
    \/ RankSteps
    \/ UpdateSteps
    \/ \E c \in Callers : RecordCacheRead(c)
    \/ \E c \in Callers : RecordDbRead(c)
    \/ \E t \in setUserTasks : RunSetUser(t)
    \/ \E id \in UserIds : ExpireUser(id)
    \/ \E c \in Callers : PageCount(c)
    \/ \E c \in Callers : PageFetch(c)

SpecLock == InitLock /\ [][NextLock]_vars

\* Two GetRank callers of one id at a time; the context of the one that waits
\* for the rank mutex may be cancelled.
NextCancel ==
    \/ \E c \in Callers : StartRank(c, "u2")
    \/ \E c \in Callers : Cancel(c)
    \/ RankSteps

SpecCancel == InitLock /\ [][NextCancel]_vars

\* CreateUser requests, up to two at a time: two names that differ only in
\* case under two ids, a name that differs from a stored one only in case, and
\* a stored name.
CreateRaceInputs ==
    { <<"u3", NameC, MinRating>>, <<"u4", <<"C", "c", "c">>, MinRating>>,
      <<"u3", <<"B", "b", "b">>, MinRating>>, <<"u4", NameA, MinRating>> }

InitCreate ==
    /\ users = SeedTable
    /\ cfg = [calls |-> MaxCreateCalls, faults |-> 0, par |-> 2]
    /\ InitService

NextCreate ==
    \/ \E c \in Callers, n \in CreateRaceInputs : StartCreate(c, n[1], n[2], n[3])
    \/ \E c \in Callers : CreateCheck(c)
    \/ \E c \in Callers : CreateInsert(c)
    \/ \E c \in Callers : CreateCache(c)

SpecCreate == InitCreate /\ [][NextCreate]_vars

\* CreateUser and UpdateScore requests with ratings on both sides of each
\* limit, on a seeded table that holds the lowest and the highest seed rating;
\* no cache key expires during the behaviour.
RangeCreateRatings == {MinRating - 1, MinRating, MaxRating + 1}
RangeUpdateRatings == {MinRating - 1, MaxRating, MaxRating + 1}

SeedLowest == CHOOSE i \in 1..numUsers : \A j \in 1..numUsers : SeedRating(i) <= SeedRating(j)
SeedHighest == CHOOSE i \in 1..numUsers : \A j \in 1..numUsers : SeedRating(i) >= SeedRating(j)

InitRange ==
    /\ users = SeededTable(SeedLowest, SeedHighest)
    /\ cfg = [calls |-> MaxRangeCalls, faults |-> 0, par |-> 2]
    /\ InitService

NextRange ==
    \/ \E c \in Callers, r \in RangeCreateRatings : StartCreate(c, "u3", NameC, r)
    \/ \E c \in Callers, r \in RangeUpdateRatings : StartUpdate(c, "u1", r)
    \/ \E c \in Callers : CreateCheck(c)
    \/ \E c \in Callers : CreateInsert(c)
    \/ \E c \in Callers : CreateCache(c)
    \/ \E c \in Callers : RankCacheRead(c)
    \/ \E c \in Callers : MapLock(c)
    \/ \E c \in Callers : getRankMutex(c)
    \/ \E c \in Callers : RankLock(c)
    \/ \E c \in Callers : RankRecheck(c)
    \/ \E c \in Callers : RankScan(c)
    \/ \E c \in Callers : RankCount(c)
    \/ \E t \in setRankTasks : RunSetRank(t)
    \/ UpdateSteps

SpecRange == InitRange /\ [][NextRange]_vars

\* GetRecord of an id with a row and of one with none, next to a CreateUser
\* that gives the second id its row, with store and cache failures.
InitRecord ==
    /\ users = SeedTable
    /\ cfg = [calls |-> MaxRecordCalls, faults |-> MaxFaults, par |-> 2]
    /\ InitService

NextRecord ==
    \/ \E c \in Callers, id \in RecordIds : StartRecord(c, id)
    \/ \E c \in Callers : StartCreate(c, "u3", NameC, MinRating)
    \/ \E c \in Callers : RecordCacheRead(c)
    \/ \E c \in Callers : RecordDbRead(c)
    \/ \E t \in setUserTasks : RunSetUser(t)
    \/ \E id \in UserIds : ExpireUser(id)
    \/ \E c \in Callers : CreateCheck(c)
    \/ \E c \in Callers : CreateInsert(c)
    \/ \E c \in Callers : CreateCache(c)
    \/ RankSteps

SpecRecord == InitRecord /\ [][NextRecord]_vars

\* The rate limiter alone: requests of two clients and the passing of time.
NextRate ==
    \/ \E k \in Clients : Allow(k)
    \/ Tick

SpecRate == Init /\ [][NextRate]_vars

\* GetRank of u2, up to two callers at a time, with cache and store failures,
\* on an Answer Cache that earlier requests have filled for u2.
InitHit ==
    /\ users = SeedTable
    /\ cfg = [calls |-> MaxHitCalls, faults |-> MaxFaults, par |-> 2]
    /\ userCache = [i \in UserIds |-> IF i = "u2" THEN SeedTable[2] ELSE NoUser]
    /\ rankCache = [i \in UserIds |-> IF i = "u2" THEN 2 ELSE 0]
    /\ InitCalls

NextHit ==
    \/ \E c \in Callers : StartRank(c, "u2")
    \/ RankSteps

SpecHit == InitHit /\ [][NextHit]_vars

\* The same requests under fair scheduling: a goroutine that can take its
\* next step takes it (every store and cache call returns), and a goroutine
\* blocked in Lock gets the mutex if it is released again and again
\* (sync.Mutex hands a starving waiter the mutex).  Expiry of a key and the
\* arrival of requests are not forced.
FairHit ==
    \A c \in Callers :
        /\ WF_vars(RankCacheRead(c))
        /\ SF_vars(MapLock(c))
        /\ WF_vars(getRankMutex(c))
        /\ SF_vars(RankLock(c))
        /\ WF_vars(RankRecheck(c))
        /\ WF_vars(RankScan(c))
        /\ WF_vars(RankCount(c))

SpecHitFair == InitHit /\ [][NextHit]_vars /\ FairHit

\* UpdateScore alone: valid and invalid scores for an id with a row and for
\* one with none, with store and cache failures.
UpdateIds == {"u2", "u3"}
UpdateRatings == {MinRating - 1, MaxRating}

InitUpdate ==
    /\ users = SeedTable
    /\ cfg = [calls |-> MaxUpdateCalls, faults |-> MaxFaults, par |-> 2]
    /\ InitService

NextUpdate ==
    \/ \E c \in Callers, id \in UpdateIds, r \in UpdateRatings : StartUpdate(c, id, r)
    \/ UpdateSteps
    \/ \E c \in Callers : RankCacheRead(c)
    \/ \E c \in Callers : MapLock(c)
    \/ \E c \in Callers : getRankMutex(c)
    \/ \E c \in Callers : RankLock(c)
    \/ \E c \in Callers : RankRecheck(c)
    \/ \E c \in Callers : RankScan(c)
    \/ \E c \in Callers : RankCount(c)
    \/ \E t \in setRankTasks : RunSetRank(t)

SpecUpdate == InitUpdate /\ [][NextUpdate]_vars

\* The search hook alone: the user types, clears, timers fire and responses
\* arrive in any order.
NextSearch ==
    \/ \E q \in Queries : debouncedSearch(q)
    \/ search
    \/ \E r \in useSearch.requests, ok \in BOOLEAN : searchSettled(r, ok)
    \/ clearSearch

SpecSearch == Init /\ [][NextSearch]_vars

\* The paging arithmetic alone: one leaderboard request through the
\* controller and the service.
NextParam ==
    \/ \E pageQ \in PageQueries, sizeQ \in PageSizeQueries : ParsePaging(pageQ, sizeQ)
    \/ OffsetPaging

SpecParam == Init /\ [][NextParam]_vars

(***************************************************************************)
(* Properties.                                                             *)
(***************************************************************************)
\* The rank of an id by the ranking rule, read off the table: one more than
\* the number of rows rated strictly higher than the id's row.
RowOf(id) == CHOOSE i \in 1..Len(users) : users[i].id = id
Exists(id) == \E i \in 1..Len(users) : users[i].id = id
TrueRank(id) ==
    1 + Cardinality({i \in 1..Len(users) : users[i].rating > users[RowOf(id)].rating})

\* The caller is inside CalculateRank: between its call and its return.
Computing(c) == call[c].pc \in {"rank_scan", "rank_count"}

\* C1: for every id, at most one caller at a time is executing CalculateRank
\* for that id, whichever of GetRank, GetRecord, UpdateScore and GetPageAround
\* the callers are serving.
C1_OneComputationPerId ==
    \A c, d \in Callers :
        (c # d /\ Computing(c) /\ Computing(d)) => call[c].id # call[d].id

\* A caller of one operation computes the rank of an id while a caller of
\* another operation waits for the same id's mutex.
C1_Witness ==
    \E c, d \in Callers :
        /\ call[c].pc = "rank_count"
        /\ call[d].pc = "rank_lock"
        /\ call[c].id = call[d].id
        /\ call[c].op # call[d].op

\* C2: N >= 2 GetRank(id) calls that start together against a cold cache cause
\* at most one rank computation, exactly one once all have returned, and all
\* receive the same rank.
C2_OneComputationPerBatch ==
    batch.n >= 2 =>
        /\ batch.calcs <= 1
        /\ batch.same
        /\ batch.back = batch.n => batch.calcs = 1

\* C3: a GetRank(id) call that starts after an UpdateScore of id has returned
\* and its invalidation has run to its end, with no write since, returns the
\* rank of the new score.
C3_RankAfterSettledUpdate ==
    (ret.op = "rank" /\ ret.settled /\ ret.clean) =>
        (ret.err = "none" /\ ret.rank = TrueRank(ret.id))

\* The ranks of the README's example.
TieExample == [i \in UserIds |-> IF i = "u1" THEN 1 ELSE IF i = "u4" THEN 4 ELSE 2]

\* C4: a GetRank call for an existing id that misses the cache returns one
\* more than the number of rows rated strictly higher; the users rated 5000,
\* 4500, 4500, 4000 get the ranks 1, 2, 2, 4 in every insertion order.
C4_RankCountsHigherRatings ==
    (ret.op = "rank" /\ ret.computed /\ ret.existed) =>
        /\ ret.err = "none"
        /\ ret.rank = TrueRank(ret.id)
        /\ ret.rank = TieExample[ret.id]

\* The user inserted first is the lowest rated, and its computed rank is 4
\* after the two tied users, inserted next to each other, caused no rank 3.
C4_Witness ==
    /\ ret.op = "rank"
    /\ ret.computed
    /\ ret.id = "u4"
    /\ ret.rank = 4
    /\ users[1].id = "u4"
    /\ users[2].rating = users[3].rating

\* Nothing is in flight: no caller and no goroutine.
Quiet ==
    /\ \A c \in Callers : ~InFlight(c)
    /\ setRankTasks = {} /\ setUserTasks = {} /\ invTasks = {}

\* What GetUserRank returns for id when it runs alone in the present state: the
\* cached rank if there is one, CalculateRank's result otherwise.
GetRankNow(id) ==
    IF CacheGetRank(rankCache, id) > 0
    THEN CacheGetRank(rankCache, id)
    ELSE RankFromCount(users, ScanRating(users, id))

\* C5: whenever nothing is in flight, the ranks GetRank returns for two
\* existing users follow their ratings: a higher rating has no larger rank,
\* equal ratings have equal ranks.
C5_RanksFollowRatings ==
    Quiet =>
        \A a, b \in {i \in UserIds : Exists(i)} :
            LET ra == users[RowOf(a)].rating
                rb == users[RowOf(b)].rating
            IN /\ ra > rb => GetRankNow(a) <= GetRankNow(b)
               /\ ra = rb => GetRankNow(a) = GetRankNow(b)

\* C6: a GetRank(id) call that starts right after a GetRank(id) call that
\* computed the rank has returned, with no write, invalidation or expiry since,
\* returns that rank without a rank computation.
C6_SecondCallHitsCache ==
    (ret.op = "rank" /\ ret.after > 0 /\ ret.clean) =>
        (~ret.computed /\ ret.rank = ret.after)

\* C7: a GetRank call for an id with no row and no cached rank fails with a
\* not-found error.
C7_MissingIdNotFound ==
    (ret.op = "rank" /\ ~ret.existed /\ ret.clean /\ ret.computed) =>
        ret.err = "notfound"

\* C8: for an existing user, UpdateScore fails with a validation error exactly
\* for the ratings outside 100..5000, and succeeds for the ratings inside
\* unless the store fails its lookup or its write.
C8_RatingLimits ==
    (ret.op = "update" /\ ret.existed) =>
        /\ ret.err = "validation" <=> ret.arg \notin 100..5000
        /\ (ret.arg \in 100..5000 /\ ret.fault \notin {"lookup", "write"})
              => ret.err = "none"

\* An UpdateScore call with the upper limit as its rating has succeeded.
C8_Witness ==
    /\ ret.op = "update"
    /\ ret.existed
    /\ ret.arg = 5000
    /\ ret.err = "none"
    /\ ret.wrote

\* C9: an UpdateScore call that returns success has written the new rating,
\* which is the row's rating unless a later write replaced it; a call whose
\* write fails returns an error and starts no invalidation.
C9_SuccessAfterWrite ==
    ret.op = "update" =>
        /\ ret.err = "none" =>
              /\ ret.wrote
              /\ ret.latest => users[RowOf(ret.id)].rating = ret.arg
        /\ ~ret.wrote => (ret.err # "none" /\ ~ret.spawned)
        /\ ret.fault = "write" => (ret.err = "store" /\ ~ret.wrote)

\* An UpdateScore call has returned the error of its failed write.
C9_Witness ==
    /\ ret.op = "update"
    /\ ret.fault = "write"
    /\ ret.err = "store"
    /\ invTasks = {}

\* C10: a successful UpdateScore(id, newScore) with no other update in flight
\* returns the new rating and the rank of the new rating.
C10_UpdateReturnsFreshRank ==
    (ret.op = "update" /\ ret.err = "none" /\ ret.alone /\ ret.latest) =>
        (ret.rating = ret.arg /\ ret.rank = TrueRank(ret.id))

\* The GetPage that has just returned, and what it was asked on.
PageReturned == ret.op = "page" /\ ret.err = "none"

\* C17: the entries a GetPage returns carry the rank GetRank computes for
\* their rating, and entries of equal rating carry equal ranks on whichever
\* pages of the same page size they are.
C17_PageRanksAreTieAware ==
    PageReturned =>
        \A i \in 1..Len(ret.page.entries) :
            LET e == ret.page.entries[i] IN
              /\ e.rank = RankFromCount(users, e.rating)
              /\ \A q \in 1..(MaxPage + 1) :
                   LET other == GetLeaderboard(users, q, ret.page.pageSize).entries IN
                     \A j \in 1..Len(other) :
                        other[j].rating = e.rating => other[j].rank = e.rank

\* The entries of the pages k, k+1, ... of one page size, one after the other.
RECURSIVE EntriesFrom(_, _, _)
EntriesFrom(t, k, pageSize) ==
    IF (k - 1) * pageSize >= Len(t) THEN <<>>
    ELSE GetLeaderboard(t, k, pageSize).entries \o EntriesFrom(t, k + 1, pageSize)

\* C18: a GetPage returns its page of the list of all pages of its page size,
\* which names every user exactly once, ordered by rating descending and
\* username ascending; so the page and the next one share no user and the
\* last rating of the page is at least the first rating of the next.
C18_PagesPartitionTheOrder ==
    PageReturned =>
        LET size == ret.page.pageSize
            all == EntriesFrom(users, 1, size)
            this == ret.page.entries
            next == GetLeaderboard(users, ret.page.page + 1, size).entries
        IN /\ this = GetLeaderboard(users, ret.page.page, size).entries
           /\ this = SubSeq(all, (ret.page.page - 1) * size + 1,
                            Min({ret.page.page * size, Len(all)}))
           /\ Len(all) = Len(users)
           /\ {all[i].username : i \in 1..Len(all)}
                 = {users[i].username : i \in 1..Len(users)}
           /\ \A i, j \in 1..Len(all) :
                 i < j => \/ all[i].rating > all[j].rating
                          \/ /\ all[i].rating = all[j].rating
                             /\ NameLess(all[i].username, all[j].username)
           /\ \A i \in 1..Len(this), j \in 1..Len(next) :
                 this[i].username # next[j].username
           /\ (this # <<>> /\ next # <<>>) =>
                 this[Len(this)].rating >= next[1].rating

\* The second page of size 2 of the four users has returned: its first user
\* is rated like the last user of the first page.
C18_Witness ==
    /\ PageReturned
    /\ Len(users) = 4
    /\ ret.page.page = 2
    /\ ret.page.pageSize = 2
    /\ Len(ret.page.entries) = 2
    /\ ret.page.entries[1].rating = 4500

\* The number of the last page of a list of total rows.
LastPage(total, pageSize) ==
    IF total = 0 THEN 1 ELSE (total + pageSize - 1) \div pageSize

\* C19: hasMore of a GetPage is offset + pageSize < total: true before the
\* last page, false on it; a page beyond the last one is empty with hasMore
\* false.
C19_HasMore ==
    PageReturned =>
        LET page == ret.page.page
            size == ret.page.pageSize
            total == Len(users)
        IN /\ ret.page.total = total
           /\ ret.page.hasMore <=> ((page - 1) * size + size < total)
           /\ page < LastPage(total, size) => ret.page.hasMore
           /\ page = LastPage(total, size) => ~ret.page.hasMore
           /\ page > LastPage(total, size) =>
                 (ret.page.entries = <<>> /\ ~ret.page.hasMore)

\* The last page, number 2, of the four users in pages of 2 has returned.
C19_Witness ==
    /\ PageReturned
    /\ Len(users) = 4
    /\ ret.page.page = 2
    /\ ret.page.pageSize = 2
    /\ ~ret.page.hasMore
    /\ Len(ret.page.entries) = 2

\* C20: the page a GetPageAround returns for an existing user holds the
\* user's own entry.
C20_AroundHoldsTarget ==
    (ret.op = "around" /\ ret.err = "none" /\ ret.existed) =>
        \E i \in 1..Len(ret.page.entries) :
            ret.page.entries[i].username = users[RowOf(ret.id)].username

\* C11: a request on whose behalf a Score-Store call failed (lookup, write,
\* rank computation, row count or page fetch) returns an error.
C11_StoreFailureFailsRequest ==
    (ret.pc = "done" /\ ret.fault \in {"lookup", "write", "constraint", "rank", "page"})
        => ret.err # "none"

\* C12: a request that met a failing cache command and no failing store call
\* succeeds with what the store gives: GetRank the rank computed from the
\* table, GetRecord the row's rating, CreateUser the new row.
C12_CacheFailureIsAMiss ==
    (ret.pc = "done" /\ ret.cfault /\ ret.fault = "none") =>
        /\ ret.err = "none"
        /\ (ret.op = "rank" /\ ret.computed /\ ret.clean)
              => ret.rank = 1 + Cardinality({i \in 1..Len(users) :
                                   users[i].rating > ScanRating(users, ret.id)})
        /\ (ret.op = "record" /\ ret.fromdb /\ ret.clean)
              => ret.rating = users[RowOf(ret.id)].rating
        /\ ret.op = "create"
              => (Exists(ret.id) /\ users[RowOf(ret.id)].rating = ret.arg)

\* A GetRecord whose read of the cached row failed has returned the row's
\* rating read from the table.
C12_Witness ==
    /\ ret.op = "record"
    /\ ret.cfault
    /\ ret.fromdb
    /\ ret.err = "none"
    /\ ret.rating = 100

\* The steps of GetUserRank a caller may take.
RankStepOf(c) ==
    \/ RankCacheRead(c)
    \/ MapLock(c)
    \/ getRankMutex(c)
    \/ RankLock(c)
    \/ RankRecheck(c)
    \/ RankScan(c)
    \/ RankCount(c)

\* C13: an UpdateScore call whose write has succeeded can always take its
\* next step, whatever the state of its invalidation goroutine, unless it
\* waits for the rank mutex another caller of the same id holds or for the
\* mutex of the lock table another caller holds; and it returns success,
\* whether the invalidation ran, failed or is pending.
C13_UpdateNeverWaits ==
    /\ \A c \in Callers :
          (call[c].op = "update" /\ call[c].wrote) =>
              \/ ENABLED RankStepOf(c)
              \/ call[c].pc = "rank_mutex" /\ rankMu.mu \in Others(c)
              \/ /\ call[c].pc = "rank_lock"
                 /\ \E d \in Others(c) :
                       /\ call[d].id = call[c].id
                       /\ call[d].pc \in {"rank_recheck", "rank_scan", "rank_count"}
    /\ (ret.op = "update" /\ ret.wrote) => ret.err = "none"

\* An UpdateScore has returned success while none of the three deletions of
\* its invalidation goroutine has been issued.
C13_Witness ==
    /\ ret.op = "update"
    /\ ret.err = "none"
    /\ \E t \in invTasks : t.id = ret.id /\ t.step = "user" /\ t.latest

\* The invalidation goroutine of an update of id is about to delete the key.
InvAt(id, step) == \E t \in invTasks : t.id = id /\ t.step = step

\* C14: a successful UpdateScore(id) has started an invalidation goroutine,
\* which goes from the deletion of the user key to that of the rank key, from
\* there to that of the leaderboard key, and from there to its end, whether
\* the deletions fail or not.
C14_AllThreeKeysAttempted ==
    /\ []((ret.op = "update" /\ ret.err = "none") => ret.spawned)
    /\ [][\A c \in Callers :
            (call[c].pc = "upd_write" /\ call'[c].wrote) => InvAt(call[c].id, "user")']_vars
    /\ \A id \in {u[1] : u \in SeqUpdateInputs} :
          /\ InvAt(id, "user") ~> InvAt(id, "rank")
          /\ InvAt(id, "rank") ~> InvAt(id, "board")
          /\ InvAt(id, "board") ~> ~InvAt(id, "board")

\* The deletion of u2's cached row has failed (the row is still cached) and
\* the goroutine is about to delete u2's rank key.
C14_Witness ==
    /\ InvAt("u2", "rank")
    /\ userCache["u2"] # NoUser
    /\ nfaults > 0
    /\ lastWrite.kind = "update"

\* The caller holds the rank mutex of its id.
HoldsRankLock(c) == call[c].pc \in {"rank_recheck", "rank_scan", "rank_count"}

\* C15: a caller that waits for the rank mutex of its id waits for a caller of
\* the same id that holds it, never for a caller of another id; and the mutex
\* of the lock table is held only inside getRankMutex, not by a caller that
\* waits for a rank mutex, holds one or computes a rank.
C15_IdsDoNotSerialize ==
    /\ \A c \in Callers :
          call[c].pc = "rank_lock" =>
              \/ ENABLED RankLock(c)
              \/ \E d \in Others(c) : call[d].id = call[c].id /\ HoldsRankLock(d)
    /\ \A c \in Callers :
          (call[c].pc = "rank_lock" \/ HoldsRankLock(c)) => rankMu.mu # c
    /\ rankMu.mu # "none" => call[rankMu.mu].pc = "rank_mutex_in"

\* Two callers are computing the ranks of two different ids at once.
C15_Witness ==
    \E c, d \in Callers :
        /\ Computing(c)
        /\ Computing(d)
        /\ call[c].id # call[d].id

\* C16: a GetRank caller whose context is cancelled while it waits for the
\* rank mutex gives up the wait: it never comes to hold the mutex.
C16_CancelledWaiterGivesUp ==
    \A c \in Callers : call[c].cancelled => ~HoldsRankLock(c)

\* C21: a GetPageAround for an id that has no row fails with a not-found
\* error and returns no page.
C21_AroundMissingIdNotFound ==
    (ret.op = "around" /\ ret.pc = "done" /\ ~ret.existed) =>
        (ret.err = "notfound" /\ ret.page = NoPage)

\* C22: after any interleaving of CreateUser calls no two rows of the users
\* table have names that are equal ignoring case.
C22_NamesUniqueIgnoringCase ==
    \A i, j \in 1..Len(users) :
        Lower(users[i].username) = Lower(users[j].username) => i = j

\* Every user SeedData creates has a rating in 100..5000.
SeedRatingsInRange ==
    \A i \in 1..numUsers : SeedRating(i) >= MinRating /\ SeedRating(i) <= MaxRating

\* C23: every row of the users table has a rating in 100..5000, whatever
\* ratings CreateUser and UpdateScore were called with, and so has every user
\* SeedData creates.
C23_StoredRatingsInRange ==
    /\ \A i \in 1..Len(users) :
          users[i].rating >= MinRating /\ users[i].rating <= MaxRating
    /\ SeedRatingsInRange

\* A create and an update have both written to a seeded table.
C23_Witness ==
    /\ Len(users) = 3
    /\ users[1].rating = MaxRating
    /\ users[3].rating = MinRating
    /\ lastWrite.kind = "update"
    /\ \/ SeedRating(SeedLowest) = users[2].rating
       \/ SeedRating(SeedHighest) = users[2].rating

\* The rank of id by the ranking rule in the table t.
TrueRankIn(t, id) ==
    LET row == GetUserByID(t, id) IN
        1 + Cardinality({i \in 1..Len(t) : t[i].rating > row.rating})

\* The states the users table goes through in SpecLock: the seed table, before
\* and after UpdateScore(u2, MaxRating).
LockTables == {SeedTable, UpdateUserRating(SeedTable, "u2", MaxRating)}

\* C24: a rank GetRank returns for an id is the id's true rank in a state the
\* Score Store has been in (one no older than the rank TTL, says the claim;
\* here: in any state at all).
C24_ServedRankWasTrue ==
    /\ users \in LockTables
    /\ (ret.op = "rank" /\ ret.err = "none") =>
          \E t \in LockTables : ret.rank = TrueRankIn(t, ret.id)

\* C25: a GetRecord whose cache read found nothing and whose store lookup
\* finds no row returns a not-found error at that step; it has computed no
\* rank, and the step creates no rank mutex, locks none and starts no
\* goroutine that writes to the cache.
C25_MissingRecordNotFound ==
    [][\A c \in Callers :
          (/\ call[c].op = "record"
           /\ call[c].pc = "rec_db"
           /\ GetUserByID(users, call[c].id) = NoUser
           /\ RecordDbRead(c)
           /\ nfaults' = nfaults)
          => /\ ret'.pc = "done"
             /\ ret'.op = "record"
             /\ ret'.id = call[c].id
             /\ ret'.err = "notfound"
             /\ ~ret'.computed
             /\ ret'.rank = 0
             /\ UNCHANGED <<rankMu, held, setRankTasks, setUserTasks,
                            userCache, rankCache, users>>]_vars

\* A GetRecord of an id with no row has returned not-found, and the id has no
\* rank mutex.
C25_Witness ==
    /\ ret.op = "record"
    /\ ret.err = "notfound"
    /\ ~ret.existed
    /\ ret.id \notin rankMu.keys

\* C26: a client's token balance never exceeds 200; of the requests a client
\* has made with no time elapsed since its first one, exactly the first 200
\* were allowed; and at any time the allowed requests number at most 200 plus
\* what 100 tokens per second have refilled since the first request.
C26_BurstAndRefill ==
    \A k \in Clients :
        /\ limiter.tokens[k] <= maxTokens * TokenUnit
        /\ (limiter.first[k] = limiter.now) =>
              limiter.allowed[k] = min(limiter.asked[k], maxTokens)
        /\ (limiter.first[k] # NoTime) =>
              limiter.allowed[k] * TokenUnit
                 <= maxTokens * TokenUnit + TokensToAdd(limiter.now - limiter.first[k])
        /\ (limiter.last.client = k /\ ~limiter.last.ok) => limiter.tokens[k] < TokenUnit

\* A fresh client's 201st request at once has been rejected.
C26_Witness ==
    \E k \in Clients :
        /\ limiter.first[k] = limiter.now
        /\ limiter.asked[k] = maxTokens + 1
        /\ limiter.allowed[k] = maxTokens
        /\ limiter.last = [client |-> k, ok |-> FALSE]

C28_HitReturnsAtOnce ==
    /\ [](\A c \in Callers : call[c].pc = "rank_read" => ENABLED RankCacheRead(c))
    /\ [][\A c \in Callers :
            (/\ call[c].op = "rank"
             /\ call[c].pc = "rank_read"
             /\ CacheGetRank(rankCache, call[c].id) > 0
             /\ RankCacheRead(c)
             /\ nfaults' = nfaults)
            => /\ ret'.pc = "done"
               /\ ret'.op = "rank"
               /\ ret'.id = call[c].id
               /\ ret'.err = "none"
               /\ ret'.rank = CacheGetRank(rankCache, call[c].id)
               /\ ~ret'.computed
               /\ UNCHANGED <<users, userCache, rankCache, rankMu, held,
                              setRankTasks, setUserTasks, invTasks>>]_vars

\* A GetRank has returned a cached rank while another caller holds the rank
\* mutex of the same id.
C28_Witness ==
    /\ ret.op = "rank"
    /\ ret.err = "none"
    /\ ret.rank > 0
    /\ ~ret.computed
    /\ \E d \in Callers : HoldsRankLock(d) /\ call[d].id = ret.id

\* C29: a GetRank caller that holds the id's rank mutex and whose re-read of
\* the cache finds a rank returns that rank at that step and unlocks the
\* mutex; it has issued no store query and issues none.
C29_RecheckHitSkipsStore ==
    /\ [](\A c \in Callers : call[c].pc = "rank_recheck" => ~call[c].computed)
    /\ [][\A c \in Callers :
            (/\ call[c].op = "rank"
             /\ call[c].pc = "rank_recheck"
             /\ ~call[c].cancelled
             /\ CacheGetRank(rankCache, call[c].id) > 0
             /\ RankRecheck(c)
             /\ nfaults' = nfaults)
            => /\ ret'.pc = "done"
               /\ ret'.op = "rank"
               /\ ret'.id = call[c].id
               /\ ret'.err = "none"
               /\ ret'.rank = CacheGetRank(rankCache, call[c].id)
               /\ ~ret'.computed
               /\ held' = held \ {call[c].id}
               /\ UNCHANGED <<users, rankCache, setRankTasks>>]_vars

\* A GetRank that had to wait for the rank mutex has returned the rank it found
\* in the cache once it held the mutex.
C29_Witness ==
    /\ ret.op = "rank"
    /\ ret.err = "none"
    /\ ret.waited
    /\ ret.rank > 0
    /\ ~ret.computed
    /\ ret.id \notin held

\* C30: when a GetRank that computed the rank returns, and with that unlocks
\* the id's rank mutex, the rank cache holds the computed rank for the id.
C30_CachedBeforeUnlock ==
    (ret.op = "rank" /\ ret.pc = "done" /\ ret.computed /\ ret.err = "none") =>
        /\ ret.id \notin held
        /\ CacheGetRank(rankCache, ret.id) = ret.rank

\* The index in the page es of the first entry of the run of equal ratings
\* that entry i belongs to.
FirstOfRun(es, i) ==
    Min({j \in 1..i : \A k \in j..i : es[k].rating = es[i].rating})

\* C31: in a page GetPage returns, every entry's rank is offset + (index, from
\* 0, of the first entry of its run of equal ratings) + 1; so entries of equal
\* rating share a rank, ranks never decrease and the first rank is offset + 1.
C31_RanksWithinPage ==
    PageReturned =>
        LET es == ret.page.entries
            offset == (ret.page.page - 1) * ret.page.pageSize
        IN /\ \A i \in 1..Len(es) : es[i].rank = offset + (FirstOfRun(es, i) - 1) + 1
           /\ \A i, j \in 1..Len(es) :
                 /\ es[i].rating = es[j].rating => es[i].rank = es[j].rank
                 /\ i <= j => es[i].rank <= es[j].rank
           /\ es # <<>> => es[1].rank = offset + 1

\* A page has been returned in which two entries tie behind a higher-rated one.
C31_Witness ==
    /\ PageReturned
    /\ Len(ret.page.entries) >= 3
    /\ ret.page.entries[1].rating > ret.page.entries[2].rating
    /\ ret.page.entries[2].rating = ret.page.entries[3].rating
    /\ ret.page.entries[3].rank = 2

\* The page number the claim C32 gives:
\* max(1, floor((rank - contextSize) / pageSize)) with pageSize = 2 * contextSize.
AroundPageClaimed(rank, contextSize) ==
    LET q == (rank - contextSize) \div (2 * contextSize) IN IF q < 1 THEN 1 ELSE q

\* The ranks the page formula is compared on.
AroundRanks == 1..(6 * MaxContext)

\* C32: a GetPageAround(id, contextSize) returns the page GetPage gives for
\* page size 2 * contextSize and page number
\* max(1, floor((rank - contextSize) / pageSize)), rank being the rank
\* GetUserRank returned to it; for rank <= contextSize that is page 1.
C32_AroundDelegates ==
    /\ \A rank \in AroundRanks, k \in 1..MaxContext :
          /\ AroundPage(rank, k) = AroundPageClaimed(rank, k)
          /\ rank <= k => AroundPage(rank, k) = 1
    /\ (ret.op = "around" /\ ret.pc = "done" /\ ret.err = "none") =>
          /\ ret.rank > 0
          /\ ret.page.pageSize = 2 * ret.ctx
          /\ ret.page.page = AroundPageClaimed(ret.rank, ret.ctx)
          /\ ret.page = GetLeaderboard(users, AroundPageClaimed(ret.rank, ret.ctx),
                                       2 * ret.ctx)

\* A GetPageAround has returned for a rank above the context size whose
\* quotient is 0, so that the lower limit 1 applies.
C32_Witness ==
    /\ ret.op = "around"
    /\ ret.err = "none"
    /\ ret.rank > ret.ctx
    /\ ret.page.entries # <<>>
    /\ (ret.rank - ret.ctx) \div (2 * ret.ctx) = 0

\* C33: GetPage takes a page below 1 as page 1 and a page size outside
\* 1..1000 as 100, so the offset it computes from them is never negative.
C33_OffsetNeverNegative ==
    paging.pc = "done" => ~IsNegative(paging.offset)

\* The normalisation itself: what reaches the query is a page of at least 1
\* and a page size within 1..1000.
ParamsNormalised ==
    paging.pc = "done" =>
        /\ ~LessThanOne(paging.page)
        /\ paging.pageSize \in 1..1000
        /\ (paging.pageQ.err \/ LessThanOne(paging.pageQ.val)) => paging.page = IntOf(1)
        /\ (paging.sizeQ.err \/ paging.sizeQ.val \notin 1..1000) => paging.pageSize = 100

\* What an UpdateScore can change besides its own call: the table, both
\* caches, the lock table and the locks, and the goroutines waiting to run.
SharedState ==
    <<users, userCache, rankCache, rankMu, held, invTasks, setRankTasks, setUserTasks>>

\* The call that has just returned is an UpdateScore with a score outside
\* [100, 5000] or for an id without a row.
UpdateRefused ==
    /\ ret.op = "update"
    /\ ret.pc = "done"
    /\ (~ValidateRating(ret.arg) \/ ~ret.existed)

\* C34: an UpdateScore with an invalid score fails with a validation error
\* without reading the store, one for an unknown id with not-found (or the
\* store's error); neither writes, starts an invalidation, creates a per-id
\* lock or computes a rank, and no step of it changes anything but the call.
C34_FailedUpdateChangesNothing ==
    /\ [](UpdateRefused =>
            /\ ret.err = (IF ~ValidateRating(ret.arg) THEN "validation"
                          ELSE IF ret.fault = "lookup" THEN "store" ELSE "notfound")
            /\ ~ret.wrote /\ ~ret.spawned /\ ~ret.computed /\ ret.rank = 0
            /\ (~ValidateRating(ret.arg) => ret.user = NoUser /\ ret.fault = "none")
            /\ (~ret.existed => ret.id \notin rankMu.keys))
    /\ [][\A c \in Callers :
            /\ (\E id \in UpdateIds, r \in UpdateRatings :
                    ~ValidateRating(r) /\ StartUpdate(c, id, r))
                  => (ret'.err = "validation" /\ UNCHANGED SharedState)
            /\ (UpdateGet(c) /\ ~call[c].existed)
                  => (ret'.err \in {"notfound", "store"} /\ UNCHANGED SharedState)
       ]_vars

\* An UpdateScore with a valid score for the id without a row has returned
\* not-found; the table is the initial one and no invalidation is pending.
C34_Witness ==
    /\ UpdateRefused
    /\ ret.err = "notfound"
    /\ ret.id = "u3"
    /\ ValidateRating(ret.arg)
    /\ users = SeedTable
    /\ invTasks = {}

\* The callers that hold the mutex of an id: between Lock and the return.
Holders(id) ==
    {c \in Callers : call[c].id = id
                     /\ call[c].pc \in {"rank_recheck", "rank_scan", "rank_count"}}

\* C35: a per-id lock is held only by a GetRank call that is still running
\* (a call that returns, by a cache hit under the lock, with a rank or with
\* the store's error, has released it), and under fair scheduling every
\* caller that has to take the lock returns.
C35_LockReleased ==
    /\ [](\A id \in UserIds : (id \in held) <=> (Holders(id) # {}))
    /\ \A c \in Callers : (call[c].pc = "rank_lock") ~> (call[c].pc = "idle")

\* A GetRank has just returned the store's error from under the lock, the lock
\* is free again and the other caller is waiting for it.
C35_Witness ==
    /\ ret.op = "rank"
    /\ ret.pc = "done"
    /\ ret.err = "store"
    /\ ret.computed
    /\ "u2" \notin held
    /\ \E c \in Callers : call[c].pc = "rank_lock" /\ call[c].id = "u2"

\* C36: the lock table never holds a second mutex for an id: an id has an
\* entry exactly when one mutex has been made for it, every getRankMutex for
\* the id returns that one mutex, first-time callers side by side included,
\* and no entry is removed or replaced.
C36_OneMutexPerId ==
    /\ [](\A id \in UserIds :
            /\ rankMu.made[id] <= 1
            /\ (id \in rankMu.keys) <=> (rankMu.made[id] = 1))
    /\ [][/\ rankMu.keys \subseteq rankMu'.keys
          /\ \A id \in rankMu.keys : rankMu'.made[id] = rankMu.made[id]
          /\ \A c \in Callers : getRankMutex(c) => rankMu'.made[call[c].id] = 1
       ]_vars

\* Two callers that both missed the cache for u2 before it had a mutex have
\* both gone through getRankMutex: one holds the mutex, the other waits for it.
C36_Witness ==
    /\ rankMu.made["u2"] = 1
    /\ \A c \in Callers : call[c].id = "u2"
    /\ \E c \in Callers : call[c].pc = "rank_lock"
    /\ \E c \in Callers : call[c].pc \in {"rank_recheck", "rank_scan", "rank_count"}

\* The tables the store passes through in SpecLock: the initial one and the
\* one after UpdateScore(u2, 5000).
StoreStates == {SeedTable, UpdateUserRating(SeedTable, "u2", MaxRating)}

\* C37: the score and the rank a GetRecord returns fit one state of the
\* store: a table in which the id has that score and that many rows, plus
\* one, have a strictly greater score.
C37_PairFromOneState ==
    (ret.op = "record" /\ ret.pc = "done" /\ ret.err = "none") =>
        \E t \in StoreStates :
            /\ GetUserByID(t, ret.id).rating = ret.rating
            /\ ret.rank = 1 + Cardinality({i \in 1..Len(t) : t[i].rating > ret.rating})

\* C38: a rank that GetRank, GetRecord or UpdateScore returns without an
\* error for an existing user is a position in the table: at least 1 and at
\* most the number of rows; 0 is never returned as a rank.
C38_RankIsAPosition ==
    (/\ ret.pc = "done"
     /\ ret.op \in {"rank", "record", "update"}
     /\ ret.err = "none"
     /\ ret.existed)
        => ret.rank \in 1..Len(users)

SearchSettled == useSearch.debounceTimer = NoQuery /\ useSearch.requests = {}

\* C40: once the timers and requests have settled, the result on display is
\* the one for the last query passed to debouncedSearch (a username, with no
\* failed search and no clearSearch after it).
C40_LastQueryDisplayed ==
    (/\ SearchSettled
     /\ useSearch.last \in Queries
     /\ Trim(useSearch.last) # ""
     /\ ~useSearch.cleared
     /\ ~useSearch.failed)
        => useSearch.result = SearchResult(useSearch.last)

\* The part on bursts: between two firings of the timer at most one API
\* search is sent, and it is sent for the query of the pending timer, the
\* last one passed to debouncedSearch.
OneSearchPerBurst ==
    /\ [](useSearch.burst <= 1)
    /\ [](useSearch.debounceTimer # NoQuery => useSearch.debounceTimer = useSearch.last)
    /\ [][(search /\ Trim(useSearch.last) # "") =>
             \E r \in useSearch'.requests \ useSearch.requests : r.q = useSearch.last]_vars

====
